---- MODULE Spec2Model ----
(***************************************************************************)
(* Ledger engine of crypto-currency-playground: Block, Transaction, Miner  *)
(* and Blockchain, modelled from src/src/block.ts, src/src/miner.ts and    *)
(* the Transaction module (src/unnamed/part_001).                          *)
(*                                                                         *)
(* Strings are TLA+ strings, concatenated with \o and cut with SubSeq, so   *)
(* that the string concatenations the code hashes are real concatenations. *)
(*                                                                         *)
(* SHA-256 is modelled as a collision-free digest: the hexadecimal output  *)
(* is a run of '0' characters whose length is a deterministic mix of the   *)
(* input, then a non-zero character, then a fingerprint that identifies    *)
(* the input.  ECDSA is modelled as an unforgeable scheme: a signature     *)
(* names the public key of the signer and the message signed.              *)
(***************************************************************************)
EXTENDS Integers, Sequences, FiniteSets, TLC

(* ---------------------------- bounds ----------------------------------- *)

MaxChain == 3

(* transactions accepted by addTransaction over the life of the ledger *)
MaxSubmitted == 2

(* submitted transactions in the blocks of a ledger that is tampered with *)
MaxTamperSubmitted == 1

MaxDifficulty == 2

(* Date.now() at construction of the ledger, and the last value it takes *)
StartTime == 12

MaxTime == 13

(* lines typed at the terminal that wait for the front end to read them *)
MaxTypedAhead == 2

(* digests one run of the mining loop is followed for *)
MaxAttempts == 12

Times == StartTime..MaxTime

(* wallets: public key (= address) and its private key *)
Users == {"A", "B"}

PrivateKeys == {"a", "b"}

Amounts == {1, 2}

Rewards == {-1, 0, 2}

(* ---------------------------- strings ---------------------------------- *)

DigitChars == <<"0", "1", "2", "3", "4", "5", "6", "7", "8", "9">>

RECURSIVE NumToString(_)
(* Number.prototype.toString() for a non-negative integer *)
NumToString(n) ==
  IF n < 10 THEN DigitChars[n + 1]
  ELSE NumToString(n \div 10) \o DigitChars[(n % 10) + 1]

RECURSIVE Repeat(_, _)
(* String.prototype.repeat *)
Repeat(c, n) == IF n <= 0 THEN "" ELSE c \o Repeat(c, n - 1)

(* String.prototype.startsWith *)
StartsWith(s, prefix) ==
  /\ Len(s) >= Len(prefix)
  /\ SubSeq(s, 1, Len(prefix)) = prefix

(* ---------------------------- SHA-256 ---------------------------------- *)

CharCode(c) ==
  CASE c = "0" -> 0 [] c = "1" -> 1 [] c = "2" -> 2 [] c = "3" -> 3
    [] c = "4" -> 4 [] c = "5" -> 5 [] c = "6" -> 6 [] c = "7" -> 7
    [] c = "8" -> 8 [] c = "9" -> 9 [] c = "A" -> 10 [] c = "B" -> 11
    [] OTHER -> 12

(* number of leading '0' characters of the digest of data: a fixed
   function of the text, here of its length and of its first, middle and
   last characters *)
LeadingZeros(data) ==
  LET n == Len(data)
      m == (n + 1) \div 2
      h == (3 * n + CharCode(SubSeq(data, 1, 1))
              + 2 * CharCode(SubSeq(data, m, m))
              + CharCode(SubSeq(data, n, n))) % 7
  IN  IF h = 5 THEN 3 ELSE IF h = 3 THEN 2 ELSE IF h = 1 THEN 1 ELSE 0

(* CryptoJS.SHA256(data).toString() *)
SHA256(data) == Repeat("0", LeadingZeros(data)) \o "f" \o data

(* ---------------------------- elliptic (secp256k1) --------------------- *)

(* keyPair.getPublic('hex') of ec.keyFromPrivate(privateKey, 'hex') *)
PublicOf(privateKey) == IF privateKey = "a" THEN "A" ELSE "B"

(* keyPair.sign(hash).toDER('hex') *)
EcSign(privateKey, hash) == "s" \o PublicOf(privateKey) \o hash

(* ec.keyFromPublic(publicKey, 'hex').verify(hash, signature); FALSE also
   stands for the exception a malformed key or signature raises *)
EcVerify(publicKey, hash, signature) ==
  /\ publicKey \in Users
  /\ signature = "s" \o publicKey \o hash

(* ---------------------------- Transaction ------------------------------ *)

MINING_REWARD == "MINING_REWARD"

(* the signature field when it is undefined *)
NoSignature == ""

(* new Transaction(sender, recipient, amount) at time now; amount > 0 *)
NewTransaction(sender, recipient, amount, now) ==
  [sender |-> sender, recipient |-> recipient, amount |-> amount,
   timestamp |-> now, signature |-> NoSignature]

TxCalculateHash(tx) ==
  SHA256(tx.sender \o tx.recipient \o NumToString(tx.amount)
         \o NumToString(tx.timestamp))

(* Transaction.sign throws when the key does not belong to the sender *)
SignThrows(tx, privateKey) == PublicOf(privateKey) # tx.sender

(* a sign that does not compare the key with the sender *)
TxSignUnchecked(tx, privateKey) ==
  [tx EXCEPT !.signature = EcSign(privateKey, TxCalculateHash(tx))]

(* the transaction after tx.sign(privateKey) *)
TxSign(tx, privateKey) ==
  IF SignThrows(tx, privateKey) THEN tx
  ELSE [tx EXCEPT !.signature = EcSign(privateKey, TxCalculateHash(tx))]

IsValid(tx) ==
  IF tx.sender = "" \/ tx.sender = MINING_REWARD THEN TRUE
  ELSE IF tx.signature = NoSignature THEN FALSE
  ELSE EcVerify(tx.sender, TxCalculateHash(tx), tx.signature)

(* a createMiningReward with sender and recipient exchanged *)
CreateMiningRewardSwapped(minerAddress, reward, now) ==
  NewTransaction(minerAddress, MINING_REWARD, reward, now)

(* Transaction.createMiningReward *)
CreateMiningReward(minerAddress, reward, now) ==
  NewTransaction(MINING_REWARD, minerAddress, reward, now)

(* JSON.stringify of a string without characters to escape *)
JsonString(s) == "\"" \o s \o "\""

(* JSON.stringify(tx) through Transaction.toJSON: an undefined signature
   is left out *)
TxStringify(tx) ==
  "{\"sender\":" \o JsonString(tx.sender)
  \o ",\"recipient\":" \o JsonString(tx.recipient)
  \o ",\"amount\":" \o NumToString(tx.amount)
  \o ",\"timestamp\":" \o NumToString(tx.timestamp)
  \o (IF tx.signature = NoSignature THEN ""
      ELSE ",\"signature\":" \o JsonString(tx.signature))
  \o "}"

RECURSIVE TxListStringify(_, _)
TxListStringify(txs, i) ==
  IF i > Len(txs) THEN ""
  ELSE (IF i > 1 THEN "," ELSE "") \o TxStringify(txs[i])
       \o TxListStringify(txs, i + 1)

(* JSON.stringify(this.transactions) *)
Stringify(txs) == "[" \o TxListStringify(txs, 1) \o "]"

(* ---------------------------- JSON ------------------------------------- *)

(* A JSON value carries its kind; an object is the sequence of its
   <<key, value>> members in the order of the text, an array the sequence of
   its items. *)
(* the items of an array or the members of an object, in their order *)
Items(f) == SubSeq(f, 1, Len(f))

JNumber(n) == [type |-> "number", value |-> n]

JString(s) == [type |-> "string", value |-> s]

JArray(items) == [type |-> "array", value |-> Items(items)]

JObject(members) == [type |-> "object", value |-> Items(members)]

JNull == [type |-> "null", value |-> <<>>]

(* what reading a member that is not there gives *)
JUndefined == [type |-> "undefined", value |-> <<>>]

(* the typeof operator *)
TypeOf(v) == IF v.type \in {"array", "object", "null"} THEN "object" ELSE v.type

(* Array.isArray *)
IsArray(v) == v.type = "array"

(* typeof json !== 'object' || json === null *)
NotAnObject(json) == TypeOf(json) # "object" \/ json.type = "null"

RECURSIVE GetFrom(_, _, _)
GetFrom(members, key, i) ==
  IF i > Len(members) THEN JUndefined
  ELSE IF members[i][1] = key THEN members[i][2]
  ELSE GetFrom(members, key, i + 1)

(* data.key on a value that is not null *)
Get(data, key) ==
  IF data.type = "object" THEN GetFrom(data.value, key, 1) ELSE JUndefined

RECURSIVE JsonStringify(_)
RECURSIVE JsonStringifyItems(_, _)
RECURSIVE JsonStringifyMembers(_, _)
(* JSON.stringify of a parsed value *)
JsonStringify(v) ==
  CASE v.type = "number" -> NumToString(v.value)
    [] v.type = "string" -> JsonString(v.value)
    [] v.type = "array" -> "[" \o JsonStringifyItems(v.value, 1) \o "]"
    [] v.type = "object" ->
         "{" \o JsonStringifyMembers(
                  SelectSeq(v.value, LAMBDA m : m[2].type # "undefined"), 1)
         \o "}"
    [] OTHER -> "null"

JsonStringifyItems(items, i) ==
  IF i > Len(items) THEN ""
  ELSE (IF i > 1 THEN "," ELSE "") \o JsonStringify(items[i])
       \o JsonStringifyItems(items, i + 1)

JsonStringifyMembers(members, i) ==
  IF i > Len(members) THEN ""
  ELSE (IF i > 1 THEN "," ELSE "") \o JsonString(members[i][1]) \o ":"
       \o JsonStringify(members[i][2])
       \o JsonStringifyMembers(members, i + 1)

(* the object without its member key *)
WithoutMember(object, key) ==
  JObject(SelectSeq(object.value, LAMBDA m : m[1] # key))

(* the object with value in the place of its member key *)
WithMember(object, key, value) ==
  JObject([i \in 1..Len(object.value) |->
             IF object.value[i][1] = key THEN <<key, value>>
             ELSE object.value[i]])

(* the object with its members in the opposite order *)
ReverseMembers(object) ==
  JObject([i \in 1..Len(object.value) |->
             object.value[Len(object.value) + 1 - i]])

(* the text of a transaction in a file: the members of Transaction.toJSON in
   its order, the signature left out when it is undefined *)
TxDocument(tx) ==
  JObject(<<<<"sender", JString(tx.sender)>>,
            <<"recipient", JString(tx.recipient)>>,
            <<"amount", JNumber(tx.amount)>>,
            <<"timestamp", JNumber(tx.timestamp)>>>>
          \o (IF tx.signature = NoSignature THEN <<>>
              ELSE <<<<"signature", JString(tx.signature)>>>>))

(* the outcome of a call: how it ended and the value it returned *)
Returned(value) == [outcome |-> "ok", value |-> <<value>>]

Thrown(error) == [outcome |-> error, value |-> <<>>]

(* a constructor that takes every amount *)
TransactionConstructorUnchecked(sender, recipient, amount, now) ==
  Returned(NewTransaction(sender, recipient, amount, now))

(* new Transaction(sender, recipient, amount) at time now, for any amount *)
TransactionConstructor(sender, recipient, amount, now) ==
  IF amount <= 0 THEN Thrown("InvalidAmountError")
  ELSE Returned(NewTransaction(sender, recipient, amount, now))

(* Transaction.fromJSON(json) at time now *)
TransactionFromJSON(json, now) ==
  IF NotAnObject(json) THEN Thrown("Error")
  ELSE IF \/ TypeOf(Get(json, "sender")) # "string"
          \/ TypeOf(Get(json, "recipient")) # "string"
          \/ TypeOf(Get(json, "amount")) # "number"
          \/ TypeOf(Get(json, "timestamp")) # "number"
       THEN Thrown("Error")
  ELSE LET made == TransactionConstructor(Get(json, "sender").value,
                                          Get(json, "recipient").value,
                                          Get(json, "amount").value, now)
       IN  IF made.outcome # "ok" THEN made
           ELSE Returned([made.value[1] EXCEPT
                            !.timestamp = Get(json, "timestamp").value,
                            !.signature =
                               IF TypeOf(Get(json, "signature")) = "string"
                               THEN Get(json, "signature").value
                               ELSE @])

(* Transaction.createMiningReward(minerAddress, reward) at time now, for any
   reward *)
TransactionCreateMiningReward(minerAddress, reward, now) ==
  TransactionConstructor(MINING_REWARD, minerAddress, reward, now)

(* ---------------------------- Wallet ----------------------------------- *)

(* the private constructor *)
NewWallet(publicKey, privateKey) ==
  [publicKey |-> publicKey, privateKey |-> privateKey]

(* Wallet.fromPrivateKey: the key pair of a string that is no private key
   cannot be made *)
WalletFromPrivateKey(privateKey) ==
  IF privateKey \notin PrivateKeys THEN Thrown("InvalidKeyError")
  ELSE Returned(NewWallet(PublicOf(privateKey), privateKey))

(* Wallet.generate: the key pair is one of the pairs of the curve *)
WalletGenerate == {NewWallet(PublicOf(k), k) : k \in PrivateKeys}

(* wallet.export() *)
WalletExport(wallet) ==
  JsonStringify(JObject(<<<<"publicKey", JString(wallet.publicKey)>>,
                          <<"privateKey", JString(wallet.privateKey)>>>>))

(* what the text of a wallet file can hold *)
WalletDocuments ==
  {JNull, JNumber(1), JString("a"), JArray(<<>>)}
  \cup UNION {{JObject(pub \o priv), JObject(priv \o pub)} :
        pub \in {<<>>} \cup {<<<<"publicKey", v>>>> :
                 v \in {JString("A"), JString("B"), JNumber(1)}},
        priv \in {<<>>} \cup {<<<<"privateKey", v>>>> :
                 v \in {JString("a"), JString("b"), JString("z"),
                        JNumber(1)}}}

(* JSON.parse on the texts of WalletDocuments; every other text is a
   syntax error *)
JsonParse(text) ==
  IF \E v \in WalletDocuments : JsonStringify(v) = text
  THEN Returned(CHOOSE v \in WalletDocuments : JsonStringify(v) = text)
  ELSE Thrown("SyntaxError")

(* wallet.sign(data) *)
WalletSign(wallet, data) == EcSign(wallet.privateKey, data)

(* the try block of Wallet.verify: keyFromPublic throws on a string that is
   no point of the curve, verify on a string that is no DER signature *)
WalletVerifyTry(publicKey, data, signature) ==
  IF publicKey \notin Users THEN Thrown("Error")
  ELSE IF ~StartsWith(signature, "s") THEN Thrown("Error")
  ELSE Returned(EcVerify(publicKey, data, signature))

(* a verify that lets the errors of its try block through *)
WalletVerifyNoCatch(publicKey, data, signature) ==
  WalletVerifyTry(publicKey, data, signature)

(* Wallet.verify: an error of the try block is the answer false *)
WalletVerify(publicKey, data, signature) ==
  LET r == WalletVerifyTry(publicKey, data, signature)
  IN  IF r.outcome = "ok" THEN r ELSE Returned(FALSE)

(* the try block of Wallet.import *)
WalletImportTry(data) ==
  LET parsed == JsonParse(data)
  IN  IF parsed.outcome # "ok" THEN parsed
      ELSE LET json == parsed.value[1]
           IN  IF json.type = "null" THEN Thrown("TypeError")
               ELSE IF \/ TypeOf(Get(json, "publicKey")) # "string"
                       \/ TypeOf(Get(json, "privateKey")) # "string"
               THEN Thrown("WalletImportError")
               ELSE LET wallet ==
                          WalletFromPrivateKey(Get(json, "privateKey").value)
                    IN  IF wallet.outcome # "ok" THEN wallet
                        ELSE IF wallet.value[1].publicKey
                                  # Get(json, "publicKey").value
                        THEN Thrown("WalletImportError")
                        ELSE wallet

(* an import that lets the errors of its try block through *)
WalletImportNoCatch(data) == WalletImportTry(data)

(* Wallet.import: every error of the try block leaves as WalletImportError *)
WalletImport(data) ==
  LET r == WalletImportTry(data)
  IN  IF r.outcome = "ok" THEN r ELSE Thrown("WalletImportError")

(* ---------------------------- Block ------------------------------------ *)

BlockCalculateHash(b) ==
  SHA256(NumToString(b.index) \o b.previousHash \o NumToString(b.timestamp)
         \o Stringify(b.transactions) \o NumToString(b.nonce))

(* new Block(index, timestamp, transactions, previousHash, nonce) *)
NewBlock(index, timestamp, transactions, previousHash, nonce) ==
  LET fields == [index |-> index, timestamp |-> timestamp,
                 transactions |-> transactions,
                 previousHash |-> previousHash, nonce |-> nonce,
                 hash |-> ""]
  IN  [fields EXCEPT !.hash = BlockCalculateHash(fields)]

(* the transactions as JSON.stringify and JSON.parse hand them on: plain
   objects with the members of Transaction.toJSON *)
PlainTransactions(txs) ==
  Items([i \in 1..Len(txs) |-> TxDocument(txs[i])])

(* the block with plain objects for its transactions *)
PlainBlock(b) ==
  [b EXCEPT !.transactions = PlainTransactions(b.transactions)]

(* Block.toJSON in a text *)
BlockDocument(b) ==
  JObject(<<<<"index", JNumber(b.index)>>,
            <<"timestamp", JNumber(b.timestamp)>>,
            <<"transactions", JArray(PlainTransactions(b.transactions))>>,
            <<"previousHash", JString(b.previousHash)>>,
            <<"nonce", JNumber(b.nonce)>>,
            <<"hash", JString(b.hash)>>>>)

(* Block.calculateHash on a block whose transactions are the values of a
   parsed text: JSON.stringify writes them as they are *)
BlockCalculateHashPlain(b) ==
  SHA256(NumToString(b.index) \o b.previousHash \o NumToString(b.timestamp)
         \o JsonStringify(JArray(b.transactions)) \o NumToString(b.nonce))

(* the typeof checks of Block.fromJSON *)
BlockShapeThrows(json) ==
  \/ NotAnObject(json)
  \/ TypeOf(Get(json, "index")) # "number"
  \/ TypeOf(Get(json, "timestamp")) # "number"
  \/ ~IsArray(Get(json, "transactions"))
  \/ TypeOf(Get(json, "previousHash")) # "string"
  \/ TypeOf(Get(json, "nonce")) # "number"
  \/ TypeOf(Get(json, "hash")) # "string"

(* new Block(data.index, data.timestamp, data.transactions,
   data.previousHash, data.nonce) *)
BlockOfData(json) ==
  LET fields == [index |-> Get(json, "index").value,
                 timestamp |-> Get(json, "timestamp").value,
                 transactions |-> Get(json, "transactions").value,
                 previousHash |-> Get(json, "previousHash").value,
                 nonce |-> Get(json, "nonce").value,
                 hash |-> ""]
  IN  [fields EXCEPT !.hash = BlockCalculateHashPlain(fields)]

(* a fromJSON that does not compare the hashes *)
BlockFromJSONUnverified(json) ==
  IF BlockShapeThrows(json) THEN Thrown("InvalidBlockError")
  ELSE Returned(BlockOfData(json))

(* Block.fromJSON *)
BlockFromJSON(json) ==
  IF BlockShapeThrows(json) THEN Thrown("InvalidBlockError")
  ELSE LET block == BlockOfData(json)
       IN  IF block.hash # Get(json, "hash").value
           THEN Thrown("InvalidBlockError")
           ELSE Returned(block)

(* ---------------------------- Miner ------------------------------------ *)

(* Miner.isValidHash *)
IsValidHash(hash, difficulty) == StartsWith(hash, Repeat("0", difficulty))

RECURSIVE MineLoop(_, _, _)
(* the while (true) loop of Miner.mine *)
MineLoop(block, difficulty, attempts) ==
  LET hash == BlockCalculateHash(block)
  IN  IF StartsWith(hash, Repeat("0", difficulty))
      THEN [block |-> [block EXCEPT !.hash = hash],
            nonce |-> block.nonce, hash |-> hash, attempts |-> attempts + 1]
      ELSE MineLoop([block EXCEPT !.nonce = block.nonce + 1], difficulty,
                    attempts + 1)

(* a mine that finds the nonce but leaves block.hash as it was *)
MineKeepHash(block, difficulty) ==
  [MineLoop(block, difficulty, 0) EXCEPT !.block.hash = block.hash]

(* a mine that reports the number of attempts as the nonce *)
MineNonceOfAttempts(block, difficulty) ==
  LET r == MineLoop(block, difficulty, 0) IN [r EXCEPT !.nonce = r.attempts]

(* a mine that stamps the block with a later time when it is done *)
MineRestamp(block, difficulty) ==
  LET r == MineLoop(block, difficulty, 0)
  IN  [r EXCEPT !.block.timestamp = @ + 1]

(* a mine that sets the nonce to 0 before it searches *)
MineFromZero(block, difficulty) ==
  MineLoop([block EXCEPT !.nonce = 0], difficulty, 0)

(* Miner(difficulty).mine(block): the mined block and the MiningResult *)
Mine(block, difficulty) == MineLoop(block, difficulty, 0)

(* ---------------------------- Blockchain ------------------------------- *)

VARIABLES chain, pendingTransactions, difficulty, miningReward, now, last,
          tampered

vars == <<chain, pendingTransactions, difficulty, miningReward, now, last,
          tampered>>

(* a getLatestBlock that returns the first block *)
GetLatestBlockFirst == chain[1]

(* the ledger in the state; chain[1] is the code's chain[0] *)
GetLatestBlock == chain[Len(chain)]

RECURSIVE BalanceOfTxsElseIf(_, _, _)
(* a balance loop that credits the recipient only when the address is not
   the sender *)
BalanceOfTxsElseIf(txs, address, balance) ==
  IF txs = <<>> THEN balance
  ELSE LET tx == Head(txs)
           b1 == IF tx.sender = address THEN balance - tx.amount
                 ELSE IF tx.recipient = address THEN balance + tx.amount
                 ELSE balance
       IN  BalanceOfTxsElseIf(Tail(txs), address, b1)

RECURSIVE BalanceOfTxs(_, _, _)
(* the inner loop of getBalanceOfAddress over one block *)
BalanceOfTxs(txs, address, balance) ==
  IF txs = <<>> THEN balance
  ELSE LET tx == Head(txs)
           b1 == IF tx.sender = address THEN balance - tx.amount ELSE balance
           b2 == IF tx.recipient = address THEN b1 + tx.amount ELSE b1
       IN  BalanceOfTxs(Tail(txs), address, b2)

RECURSIVE BalanceOfChain(_, _, _)
BalanceOfChain(blocks, address, balance) ==
  IF blocks = <<>> THEN balance
  ELSE BalanceOfChain(Tail(blocks), address,
                      BalanceOfTxs(Head(blocks).transactions, address, balance))

GetBalanceOfAddress(blocks, address) == BalanceOfChain(blocks, address, 0)

RECURSIVE HistoryOfTxsTwice(_, _, _)
(* a history loop that pushes once for the sender and once for the
   recipient *)
HistoryOfTxsTwice(txs, address, history) ==
  IF txs = <<>> THEN history
  ELSE LET tx == Head(txs)
           h1 == IF tx.sender = address THEN Append(history, tx) ELSE history
           h2 == IF tx.recipient = address THEN Append(h1, tx) ELSE h1
       IN  HistoryOfTxsTwice(Tail(txs), address, h2)

RECURSIVE HistoryOfTxs(_, _, _)
(* the inner loop of getTransactionHistory over one block *)
HistoryOfTxs(txs, address, history) ==
  IF txs = <<>> THEN history
  ELSE LET tx == Head(txs)
       IN  HistoryOfTxs(Tail(txs), address,
                        IF tx.sender = address \/ tx.recipient = address
                        THEN Append(history, tx)
                        ELSE history)

RECURSIVE HistoryOfChain(_, _, _)
HistoryOfChain(blocks, address, history) ==
  IF blocks = <<>> THEN history
  ELSE HistoryOfChain(Tail(blocks), address,
                      HistoryOfTxs(Head(blocks).transactions, address, history))

GetTransactionHistory(blocks, address) == HistoryOfChain(blocks, address, <<>>)

(* an isChainValid that does not recalculate the hashes *)
ChainValidNoRecalculation(blocks, diff) ==
  \A i \in 2..Len(blocks) :
    /\ blocks[i].previousHash = blocks[i - 1].hash
    /\ StartsWith(blocks[i].hash, Repeat("0", diff))

(* isChainValid on a chain: the loop starts at the block after genesis *)
ChainValid(blocks, diff) ==
  \A i \in 2..Len(blocks) :
    LET currentBlock == blocks[i]
        previousBlock == blocks[i - 1]
    IN  /\ currentBlock.hash = BlockCalculateHash(currentBlock)
        /\ currentBlock.previousHash = previousBlock.hash
        /\ StartsWith(currentBlock.hash, Repeat("0", diff))

IsChainValid == ChainValid(chain, difficulty)

(* a createGenesisBlock that does not mine the block *)
CreateGenesisBlockUnmined(diff, t) == NewBlock(0, t, <<>>, "0", 0)

(* a createGenesisBlock whose previousHash is the empty string *)
CreateGenesisBlockNoSentinel(diff, t) ==
  Mine(NewBlock(0, t, <<>>, "", 0), diff).block

(* Blockchain.createGenesisBlock at time t *)
CreateGenesisBlock(diff, t) == Mine(NewBlock(0, t, <<>>, "0", 0), diff).block

(* the four fields of a Blockchain *)
Ledger(blocks, pool, diff, reward) ==
  [chain |-> blocks, pendingTransactions |-> pool, difficulty |-> diff,
   miningReward |-> reward]

(* the ledger with plain objects for its transactions *)
PlainLedger(ledger) ==
  [ledger EXCEPT
     !.chain = Items([i \in 1..Len(ledger.chain) |->
                        PlainBlock(ledger.chain[i])]),
     !.pendingTransactions = PlainTransactions(ledger.pendingTransactions)]

(* Blockchain.toJSON in a text *)
BlockchainDocument(ledger) ==
  JObject(<<<<"chain",
              JArray([i \in 1..Len(ledger.chain) |->
                        BlockDocument(ledger.chain[i])])>>,
            <<"pendingTransactions",
              JArray(PlainTransactions(ledger.pendingTransactions))>>,
            <<"difficulty", JNumber(ledger.difficulty)>>,
            <<"miningReward", JNumber(ledger.miningReward)>>>>)

(* the type checks of Blockchain.fromJSON *)
BlockchainShapeThrows(json) ==
  \/ NotAnObject(json)
  \/ ~IsArray(Get(json, "chain"))
  \/ ~IsArray(Get(json, "pendingTransactions"))
  \/ TypeOf(Get(json, "difficulty")) # "number"
  \/ TypeOf(Get(json, "miningReward")) # "number"

(* data.chain.map(Block.fromJSON) *)
BlocksFromJSON(items) ==
  Items([i \in 1..Len(items) |-> BlockFromJSON(items[i])])

(* a fromJSON that does not restore the pool *)
BlockchainFromJSONNoPool(json) ==
  IF BlockchainShapeThrows(json) THEN Thrown("Error")
  ELSE LET blocks == BlocksFromJSON(Get(json, "chain").value)
       IN  IF \E i \in 1..Len(blocks) : blocks[i].outcome # "ok"
           THEN Thrown("InvalidBlockError")
           ELSE Returned(Ledger(Items([i \in 1..Len(blocks) |->
                                        blocks[i].value[1]]),
                                <<>>,
                                Get(json, "difficulty").value,
                                Get(json, "miningReward").value))

(* Blockchain.fromJSON: the chain of the new Blockchain is overwritten with
   the blocks of the text, the pool with the array of the text as it is *)
BlockchainFromJSON(json) ==
  IF BlockchainShapeThrows(json) THEN Thrown("Error")
  ELSE LET blocks == BlocksFromJSON(Get(json, "chain").value)
       IN  IF \E i \in 1..Len(blocks) : blocks[i].outcome # "ok"
           THEN Thrown("InvalidBlockError")
           ELSE Returned(Ledger(Items([i \in 1..Len(blocks) |->
                                        blocks[i].value[1]]),
                                Get(json, "pendingTransactions").value,
                                Get(json, "difficulty").value,
                                Get(json, "miningReward").value))

(* the fields the methods of Blockchain read off a transaction that is a
   plain object *)
TransactionOfPlain(v) ==
  [sender |-> Get(v, "sender").value, recipient |-> Get(v, "recipient").value,
   amount |-> Get(v, "amount").value, timestamp |-> Get(v, "timestamp").value,
   signature |-> IF Get(v, "signature").type = "string"
                 THEN Get(v, "signature").value ELSE NoSignature]

(* the blocks with what the methods read off their transactions *)
ReadPlain(blocks) ==
  Items([i \in 1..Len(blocks) |->
     [blocks[i] EXCEPT !.transactions =
        Items([j \in 1..Len(blocks[i].transactions) |->
           TransactionOfPlain(blocks[i].transactions[j])])]])

(* isChainValid on a chain whose transactions are plain objects *)
ChainValidPlain(blocks, diff) ==
  \A i \in 2..Len(blocks) :
    LET currentBlock == blocks[i]
        previousBlock == blocks[i - 1]
    IN  /\ currentBlock.hash = BlockCalculateHashPlain(currentBlock)
        /\ currentBlock.previousHash = previousBlock.hash
        /\ StartsWith(currentBlock.hash, Repeat("0", diff))

(* what the last operation was and how it ended; sender and amount are
   those of the transaction handed to addTransaction, miner the address
   handed to minePendingTransactions, built the block as constructed, before
   mining, mined the MiningResult and returned the block the operation
   handed back *)
Last(op, outcome, sender, amount, miner, built, mined, returned) ==
  [op |-> op, outcome |-> outcome, sender |-> sender, amount |-> amount,
   miner |-> miner, built |-> built, mined |-> mined, returned |-> returned]

MiningResult(r) == [nonce |-> r.nonce, hash |-> r.hash, attempts |-> r.attempts]

RECURSIVE SubmittedIn(_)
SubmittedIn(blocks) ==
  IF blocks = <<>> THEN 0
  ELSE Len(Head(blocks).transactions) - 1 + SubmittedIn(Tail(blocks))

(* transactions that entered the ledger through addTransaction *)
Submitted == Len(pendingTransactions) + SubmittedIn(Tail(chain))

NotTampered == [kind |-> "none", k |-> 0, field |-> "none"]

(* new Blockchain(difficulty, miningReward) *)
Init ==
  /\ difficulty \in 0..MaxDifficulty
  /\ miningReward \in Rewards
  /\ now = StartTime
  /\ pendingTransactions = <<>>
  /\ chain = <<CreateGenesisBlock(difficulty, now)>>
  /\ last = LET block == NewBlock(0, now, <<>>, "0", 0)
            IN  Last("constructor", "ok", "", 0, "", <<block>>,
                     <<MiningResult(Mine(block, difficulty))>>,
                     <<Mine(block, difficulty).block>>)
  /\ tampered = NotTampered

(* ---------------------------- inputs ----------------------------------- *)

Senders == Users \cup {"", MINING_REWARD}

Recipients == {"B"}

Miners == {"A"}

(* signatures a caller can attach: none or, for a sender that is a wallet,
   one made by either wallet over the transaction or one the sender made
   over another amount *)
SignatureInputs(tx) ==
  {NoSignature}
  \cup {EcSign(k, TxCalculateHash(tx)) :
          k \in {j \in PrivateKeys : tx.sender \in Users}}
  \cup {EcSign(k, TxCalculateHash([tx EXCEPT !.amount = tx.amount + 1])) :
          k \in {j \in PrivateKeys : PublicOf(j) = tx.sender}}

(* transactions from sender s for amount a constructed at time t, with the
   signature attached *)
TxInputsOf(t, s, a) ==
  UNION {{[NewTransaction(s, r, a, t) EXCEPT !.signature = sig] :
            sig \in SignatureInputs(NewTransaction(s, r, a, t))} :
         r \in Recipients}

(* transactions a caller can submit at time t *)
TxInputs(t) == UNION {TxInputsOf(t, s, a) : s \in Senders, a \in Amounts}

(* ---------------------------- operations ------------------------------- *)

(* an addTransaction that checks the balance before the signature *)
AddTransactionOutcomeBalanceFirst(transaction) ==
  IF transaction.sender # MINING_REWARD
  THEN IF GetBalanceOfAddress(chain, transaction.sender) < transaction.amount
       THEN "InsufficientBalanceError"
       ELSE IF ~IsValid(transaction) THEN "false" ELSE "true"
  ELSE "true"

(* an addTransaction that also refuses an amount equal to the balance *)
AddTransactionOutcomeStrict(transaction) ==
  IF transaction.sender # MINING_REWARD
  THEN IF ~IsValid(transaction) THEN "false"
       ELSE IF GetBalanceOfAddress(chain, transaction.sender)
                 <= transaction.amount
            THEN "InsufficientBalanceError"
            ELSE "true"
  ELSE "true"

RECURSIVE PendingDebits(_, _)
PendingDebits(txs, address) ==
  IF txs = <<>> THEN 0
  ELSE (IF Head(txs).sender = address THEN Head(txs).amount ELSE 0)
       + PendingDebits(Tail(txs), address)

(* an addTransaction that sets the debits waiting in the pool against the
   balance *)
AddTransactionOutcomeReserving(transaction) ==
  IF transaction.sender # MINING_REWARD
  THEN IF ~IsValid(transaction) THEN "false"
       ELSE IF GetBalanceOfAddress(chain, transaction.sender)
                 - PendingDebits(pendingTransactions, transaction.sender)
                 < transaction.amount
            THEN "InsufficientBalanceError"
            ELSE "true"
  ELSE "true"

(* an addTransaction that turns away a transaction the pool or a block
   already holds *)
AddTransactionOutcomeNoReplay(transaction) ==
  IF transaction.sender # MINING_REWARD
  THEN IF ~IsValid(transaction) THEN "false"
       ELSE IF \/ \E i \in 1..Len(pendingTransactions) :
                    pendingTransactions[i] = transaction
               \/ \E i \in 1..Len(chain) :
                    \E j \in 1..Len(chain[i].transactions) :
                      chain[i].transactions[j] = transaction
            THEN "false"
            ELSE IF GetBalanceOfAddress(chain, transaction.sender)
                      < transaction.amount
                 THEN "InsufficientBalanceError"
                 ELSE "true"
  ELSE "true"

(* an addTransaction that holds the reward sender to the signature and
   balance checks as well *)
AddTransactionOutcomeNoExemption(transaction) ==
  IF ~IsValid(transaction) THEN "false"
  ELSE IF GetBalanceOfAddress(chain, transaction.sender) < transaction.amount
       THEN "InsufficientBalanceError"
       ELSE "true"

(* how addTransaction(transaction) ends *)
AddTransactionOutcome(transaction) ==
  IF transaction.sender # MINING_REWARD
  THEN IF ~IsValid(transaction) THEN "false"
       ELSE IF GetBalanceOfAddress(chain, transaction.sender)
                 < transaction.amount
            THEN "InsufficientBalanceError"
            ELSE "true"
  ELSE "true"

(* an addTransaction that puts the transaction at the head of the pool *)
AddTransactionUnshift(transaction) ==
  /\ Submitted < MaxSubmitted
  /\ LET outcome == AddTransactionOutcome(transaction)
     IN  /\ pendingTransactions' =
              IF outcome = "true"
              THEN <<transaction>> \o pendingTransactions
              ELSE pendingTransactions
         /\ last' = Last("addTransaction", outcome, transaction.sender,
                          transaction.amount, "", <<>>, <<>>, <<>>)
  /\ UNCHANGED <<chain, difficulty, miningReward, now, tampered>>

(* addTransaction(transaction) *)
AddTransaction(transaction) ==
  /\ Submitted < MaxSubmitted
  /\ LET outcome == AddTransactionOutcome(transaction)
     IN  /\ pendingTransactions' =
              IF outcome = "true"
              THEN Append(pendingTransactions, transaction)
              ELSE pendingTransactions
         /\ last' = Last("addTransaction", outcome, transaction.sender,
                          transaction.amount, "", <<>>, <<>>, <<>>)
  /\ UNCHANGED <<chain, difficulty, miningReward, now, tampered>>

(* a minePendingTransactions that leaves the pool as it is, the reward
   transaction it pushed included *)
MinePendingTransactionsKeepPool(minerAddress, t) ==
  /\ Len(chain) < MaxChain
  /\ now <= t
  /\ IF miningReward <= 0
     THEN /\ last' = Last("minePendingTransactions", "InvalidAmountError",
                          "", 0, minerAddress, <<>>, <<>>, <<>>)
          /\ UNCHANGED <<chain, pendingTransactions>>
     ELSE LET rewardTx == CreateMiningReward(minerAddress, miningReward, t)
              pool == Append(pendingTransactions, rewardTx)
              block == NewBlock(Len(chain), t, pool, GetLatestBlock.hash, 0)
              result == Mine(block, difficulty)
          IN  /\ chain' = Append(chain, result.block)
              /\ pendingTransactions' = pool
              /\ last' = Last("minePendingTransactions", "ok", "", 0,
                              minerAddress, <<block>>,
                              <<MiningResult(result)>>, <<result.block>>)
  /\ now' = t
  /\ UNCHANGED <<difficulty, miningReward, tampered>>

(* a minePendingTransactions that numbers the new block from the index of
   the latest block *)
MinePendingTransactionsLatestIndex(minerAddress, t) ==
  /\ Len(chain) < MaxChain
  /\ now <= t
  /\ IF miningReward <= 0
     THEN /\ last' = Last("minePendingTransactions", "InvalidAmountError",
                          "", 0, minerAddress, <<>>, <<>>, <<>>)
          /\ UNCHANGED <<chain, pendingTransactions>>
     ELSE LET rewardTx == CreateMiningReward(minerAddress, miningReward, t)
              pool == Append(pendingTransactions, rewardTx)
              block == NewBlock(GetLatestBlock.index, t, pool,
                                GetLatestBlock.hash, 0)
              result == Mine(block, difficulty)
          IN  /\ chain' = Append(chain, result.block)
              /\ pendingTransactions' = <<>>
              /\ last' = Last("minePendingTransactions", "ok", "", 0,
                              minerAddress, <<block>>,
                              <<MiningResult(result)>>, <<result.block>>)
  /\ now' = t
  /\ UNCHANGED <<difficulty, miningReward, tampered>>

(* a minePendingTransactions that puts the reward transaction in front of
   the pool *)
MinePendingTransactionsRewardFirst(minerAddress, t) ==
  /\ Len(chain) < MaxChain
  /\ now <= t
  /\ IF miningReward <= 0
     THEN /\ last' = Last("minePendingTransactions", "InvalidAmountError",
                          "", 0, minerAddress, <<>>, <<>>, <<>>)
          /\ UNCHANGED <<chain, pendingTransactions>>
     ELSE LET rewardTx == CreateMiningReward(minerAddress, miningReward, t)
              pool == <<rewardTx>> \o pendingTransactions
              block == NewBlock(Len(chain), t, pool, GetLatestBlock.hash, 0)
              result == Mine(block, difficulty)
          IN  /\ chain' = Append(chain, result.block)
              /\ pendingTransactions' = <<>>
              /\ last' = Last("minePendingTransactions", "ok", "", 0,
                              minerAddress, <<block>>,
                              <<MiningResult(result)>>, <<result.block>>)
  /\ now' = t
  /\ UNCHANGED <<difficulty, miningReward, tampered>>

(* a minePendingTransactions that mines the pool without a reward
   transaction when the reward is not positive *)
MinePendingTransactionsNoReward(minerAddress, t) ==
  /\ Len(chain) < MaxChain
  /\ now <= t
  /\ LET pool == IF miningReward <= 0 THEN pendingTransactions
                 ELSE Append(pendingTransactions,
                             CreateMiningReward(minerAddress, miningReward, t))
         block == NewBlock(Len(chain), t, pool, GetLatestBlock.hash, 0)
         result == Mine(block, difficulty)
     IN  /\ chain' = Append(chain, result.block)
         /\ pendingTransactions' = <<>>
         /\ last' = Last("minePendingTransactions", "ok", "", 0,
                         minerAddress, <<block>>,
                         <<MiningResult(result)>>, <<result.block>>)
  /\ now' = t
  /\ UNCHANGED <<difficulty, miningReward, tampered>>

(* minePendingTransactions(minerAddress) when Date.now() reads t *)
MinePendingTransactions(minerAddress, t) ==
  /\ Len(chain) < MaxChain
  /\ now <= t
  /\ IF miningReward <= 0
     THEN /\ last' = Last("minePendingTransactions", "InvalidAmountError",
                          "", 0, minerAddress, <<>>, <<>>, <<>>)
          /\ UNCHANGED <<chain, pendingTransactions>>
     ELSE LET rewardTx == CreateMiningReward(minerAddress, miningReward, t)
              pool == Append(pendingTransactions, rewardTx)
              block == NewBlock(Len(chain), t, pool, GetLatestBlock.hash, 0)
              result == Mine(block, difficulty)
          IN  /\ chain' = Append(chain, result.block)
              /\ pendingTransactions' = <<>>
              /\ last' = Last("minePendingTransactions", "ok", "", 0,
                              minerAddress, <<block>>,
                              <<MiningResult(result)>>, <<result.block>>)
  /\ now' = t
  /\ UNCHANGED <<difficulty, miningReward, tampered>>

Next ==
  \/ \E transaction \in TxInputs(now) : AddTransaction(transaction)
  \/ \E minerAddress \in Miners, t \in Times :
       MinePendingTransactions(minerAddress, t)

Spec == Init /\ [][Next]_vars

(* the miner hands in the empty string as its address *)
NextEmptyMiner ==
  \/ \E transaction \in TxInputs(now) : AddTransaction(transaction)
  \/ \E t \in Times : MinePendingTransactions("", t)

SpecEmptyMiner == Init /\ [][NextEmptyMiner]_vars

(* ---------------------------- scenario --------------------------------- *)

(* new Blockchain(2, 100): the default difficulty and reward *)
InitScenario ==
  /\ difficulty = 2
  /\ miningReward = 100
  /\ now = StartTime
  /\ pendingTransactions = <<>>
  /\ chain = <<CreateGenesisBlock(difficulty, now)>>
  /\ last = LET block == NewBlock(0, now, <<>>, "0", 0)
            IN  Last("constructor", "ok", "", 0, "", <<block>>,
                     <<MiningResult(Mine(block, difficulty))>>,
                     <<Mine(block, difficulty).block>>)
  /\ tampered = NotTampered

(* a transfer between the two wallets constructed at time t and signed by
   the sender *)
Transfer(sender, recipient, amount, t) ==
  TxSign(NewTransaction(sender, recipient, amount, t),
         CHOOSE k \in PrivateKeys : PublicOf(k) = sender)

(* transfers a caller can submit at time t: signed by the sender or left
   unsigned *)
ScenarioTxInputs(t) ==
  UNION {{Transfer(s, r, a, t), NewTransaction(s, r, a, t)} :
           s \in Users, r \in Users, a \in {10, 100}}

NextScenario ==
  \/ \E transaction \in ScenarioTxInputs(now) : AddTransaction(transaction)
  \/ \E minerAddress \in Miners, t \in Times :
       MinePendingTransactions(minerAddress, t)

SpecScenario == InitScenario /\ [][NextScenario]_vars

(* ---------------------------- save and load ---------------------------- *)

(* When the work is done the ledger is written with JSON.stringify and read
   back with Blockchain.fromJSON; kind tells whether the text is read as
   written or with the members of its block objects, of the transactions in
   its blocks or of the transactions in its pool in the opposite order. *)

ReorderKinds == {"blocks", "transactions", "pool"}

(* the array with every object in it reordered *)
ReverseItems(array) ==
  JArray([i \in 1..Len(array.value) |-> ReverseMembers(array.value[i])])

(* the text of the ledger, its objects reordered as kind says *)
Reordered(document, kind) ==
  CASE kind = "saved" -> document
    [] kind = "blocks" ->
         WithMember(document, "chain", ReverseItems(Get(document, "chain")))
    [] kind = "transactions" ->
         WithMember(document, "chain",
           JArray([i \in 1..Len(Get(document, "chain").value) |->
                     LET block == Get(document, "chain").value[i]
                     IN  WithMember(block, "transactions",
                           ReverseItems(Get(block, "transactions")))]))
    [] kind = "pool" ->
         WithMember(document, "pendingTransactions",
                    ReverseItems(Get(document, "pendingTransactions")))

ThisLedger == Ledger(chain, pendingTransactions, difficulty, miningReward)

Loaded == last.op = "Blockchain.fromJSON"

(* Blockchain.fromJSON on the text of this ledger *)
Load(kind) ==
  /\ ~Loaded
  /\ LET json == Reordered(BlockchainDocument(ThisLedger), kind)
         r == BlockchainFromJSON(json)
     IN  last' = [op |-> "Blockchain.fromJSON", args |-> <<kind>>,
                  outcome |-> r.outcome, returned |-> r.value]
  /\ UNCHANGED <<chain, pendingTransactions, difficulty, miningReward, now,
                 tampered>>

NextLoad ==
  \/ ~Loaded /\ Next
  \/ Load("saved")

SpecLoad == Init /\ [][NextLoad]_vars

(* the text is edited between save and load *)
NextReload ==
  \/ ~Loaded /\ Next
  \/ \E kind \in ReorderKinds : Load(kind)

SpecReload == Init /\ [][NextReload]_vars

(* ---------------------------- calls on values -------------------------- *)

(* Transaction, Block and Wallet are used on their own as well.  A call is
   recorded with its arguments, how it ended and what it returned; it is
   pending until the method has run.  The ledger is left as constructed. *)

Call(op, args, outcome, returned) ==
  [op |-> op, args |-> args, outcome |-> outcome, returned |-> returned]

Pending(op, args) == Call(op, args, "pending", <<>>)

IsPending(op) == last.op = op /\ last.outcome = "pending"

ValueAmounts == {-1, 0, 1, 11}

ValueTimes == {2, 12}

(* a signature string as found in a file *)
StoredSignature == EcSign("a", TxCalculateHash(NewTransaction("A", "B", 1, 12)))

(* transaction texts: every member well formed, the amount of any sign, with
   or without a signature *)
TxDocuments ==
  {JObject(<<<<"sender", JString(sender)>>, <<"recipient", JString("B")>>,
             <<"amount", JNumber(amount)>>, <<"timestamp", JNumber(12)>>>>
           \o sig) :
     sender \in {"A", MINING_REWARD}, amount \in ValueAmounts,
     sig \in {<<>>, <<<<"signature", JString(StoredSignature)>>>>}}

TxMembers == {"sender", "recipient", "amount", "timestamp", "signature"}

(* values that are not transaction texts, and transaction texts with one
   member missing or of another type *)
TxDocumentsMalformed ==
  {JNull, JNumber(1), JString("A"), JArray(<<>>)}
  \cup {WithoutMember(d, k) : d \in TxDocuments, k \in TxMembers}
  \cup {WithMember(d, k, JNumber(1)) :
          d \in TxDocuments, k \in {"sender", "recipient", "signature"}}
  \cup {WithMember(d, k, JString("1")) :
          d \in TxDocuments, k \in {"amount", "timestamp"}}

(* signed transfers and the field tuples a transaction can carry *)
ValueTransfers ==
  {Transfer(sender, recipient, amount, t) :
     sender \in Users, recipient \in Users,
     amount \in {a \in ValueAmounts : a > 0}, t \in ValueTimes}

(* blocks as new Block(...) leaves them *)
ValueBlocks ==
  {NewBlock(index, timestamp, transactions, previousHash, nonce) :
     index \in {0, 1}, timestamp \in ValueTimes,
     transactions \in {<<>>, <<CreateMiningReward("A", 1, 2)>>},
     previousHash \in {"0", "01"}, nonce \in {0, 1}}

(* blocks whose hash field was assigned after construction *)
ValueBlocksStale == {[b EXCEPT !.hash = "stale"] : b \in ValueBlocks}

(* texts handed to Wallet.import: what export() wrote, the texts of
   WalletDocuments and texts that are not JSON *)
WalletTexts ==
  {WalletExport(w) : w \in WalletGenerate}
  \cup {JsonStringify(v) : v \in WalletDocuments}
  \cup {"", "{", "publicKey"}

BlockMembers ==
  {"index", "timestamp", "transactions", "previousHash", "nonce", "hash"}

(* block texts as saved, with the hash field stale, and with the members in
   another order *)
BlockDocuments ==
  {BlockDocument(b) : b \in ValueBlocks \cup ValueBlocksStale}
  \cup {ReverseMembers(BlockDocument(b)) : b \in ValueBlocks}

(* values that are not block texts, and block texts with one member missing,
   of another type, or changed after the hash was stored *)
BlockDocumentsMalformed ==
  {JNull, JNumber(1), JString("0"), JArray(<<>>)}
  \cup {WithoutMember(BlockDocument(b), k) :
          b \in ValueBlocks, k \in BlockMembers}
  \cup {WithMember(BlockDocument(b), k, JNumber(1)) :
          b \in ValueBlocks, k \in {"transactions", "previousHash", "hash"}}
  \cup {WithMember(BlockDocument(b), k, JString("1")) :
          b \in ValueBlocks, k \in {"index", "timestamp", "nonce"}}
  \cup {WithMember(BlockDocument(b), "nonce", JNumber(b.nonce + 1)) :
          b \in ValueBlocks}

(* ledgers of difficulty 1 and reward 2: one with a signed transfer in the
   pool, one with a mined block *)
ValueLedgers ==
  LET genesis == CreateGenesisBlock(1, 2)
      reward == CreateMiningReward("A", 2, 12)
  IN  {Ledger(<<genesis>>, <<Transfer("A", "B", 1, 12)>>, 1, 2),
       Ledger(<<genesis,
                Mine(NewBlock(1, 12, <<reward>>, genesis.hash, 0), 1).block>>,
              <<>>, 1, 2)}

(* the array with value in the place of its item i *)
WithItem(array, i, value) ==
  JArray([j \in 1..Len(array.value) |->
            IF j = i THEN value ELSE array.value[j]])

(* the text with block in the place of block i of its chain *)
WithBlock(document, i, block) ==
  WithMember(document, "chain", WithItem(Get(document, "chain"), i, block))

(* the block text with the hash of its other members stored *)
Rehashed(block) ==
  WithMember(block, "hash", JString(BlockOfData(block).hash))

(* one transaction text changed: a member missing or of another type, or
   a value that is no object *)
TxChanges(tx) ==
  {JNumber(1)}
  \cup {WithoutMember(tx, k) :
          k \in {"sender", "recipient", "amount", "timestamp"}}
  \cup {WithMember(tx, "sender", JNumber(1)),
        WithMember(tx, "amount", JString("1"))}

(* one block text changed: a member missing, of another type or with
   another value, one of its transactions changed, and any of these with the
   hash stored again *)
BlockChanges(block) ==
  LET changed ==
        {WithoutMember(block, k) : k \in BlockMembers \ {"hash"}}
        \cup {WithMember(block, "index", JString("1")),
              WithMember(block, "transactions", JNumber(1)),
              WithMember(block, "previousHash", JString("x")),
              WithMember(block, "nonce",
                         JNumber(Get(block, "nonce").value + 1))}
        \cup UNION {{WithMember(block, "transactions",
                       WithItem(Get(block, "transactions"), j, tx)) :
                       tx \in TxChanges(Get(block, "transactions").value[j])} :
                    j \in 1..Len(Get(block, "transactions").value)}
  IN  {JNumber(1), WithoutMember(block, "hash"),
       WithMember(block, "hash", JNumber(1))}
      \cup changed
      \cup {Rehashed(b) : b \in {c \in changed : ~BlockShapeThrows(c)}}

(* the text of a ledger changed in one place, at the top, in a block or in
   the pool, or with a chain made by hand *)
LedgerChanges(document) ==
  {JNull, JNumber(1), JArray(<<>>)}
  \cup {WithoutMember(document, k) :
          k \in {"chain", "pendingTransactions", "difficulty",
                 "miningReward"}}
  \cup {WithMember(document, k, JString("1")) :
          k \in {"chain", "pendingTransactions", "difficulty",
                 "miningReward"}}
  \cup {WithMember(document, "difficulty", JNumber(MaxDifficulty + 1)),
        WithMember(document, "chain", JArray(<<>>))}
  \cup UNION {{WithBlock(document, i, b) :
                 b \in BlockChanges(Get(document, "chain").value[i])} :
              i \in 1..Len(Get(document, "chain").value)}
  \cup UNION {{WithMember(document, "pendingTransactions",
                 WithItem(Get(document, "pendingTransactions"), j, tx)) :
                 tx \in TxChanges(
                          Get(document, "pendingTransactions").value[j])} :
              j \in 1..Len(Get(document, "pendingTransactions").value)}

(* texts handed to Blockchain.fromJSON *)
LedgerDocuments ==
  UNION {{BlockchainDocument(l)} \cup LedgerChanges(BlockchainDocument(l)) :
           l \in ValueLedgers}

(* data a wallet signs: digests *)
SignedData == {SHA256("d"), SHA256("e")}

(* keys and signatures handed to Wallet.verify: those of the wallets and
   strings that are neither *)
VerifyKeys == Users \cup {"", "zz"}

VerifySignatures ==
  {WalletSign(w, d) : w \in WalletGenerate, d \in SignedData} \cup {"", "zz"}

(* nonces a block holds when mine is called on it *)
StartNonces == {0, 1, 3, 8}

(* blocks handed to Miner.mine *)
MineBlocks ==
  {NewBlock(1, timestamp, transactions, "0", nonce) :
     timestamp \in ValueTimes,
     transactions \in {<<>>, <<CreateMiningReward("A", 1, 2)>>},
     nonce \in StartNonces}

(* the calls a program can make, with the reading t of Date.now() where the
   method reads the clock *)
PendingCall ==
  \/ \E sender \in Senders, recipient \in Users, amount \in ValueAmounts,
        t \in ValueTimes :
       last = Pending("new Transaction", <<sender, recipient, amount, t>>)
  \/ \E minerAddress \in Users, reward \in ValueAmounts, t \in ValueTimes :
       last = Pending("createMiningReward", <<minerAddress, reward, t>>)
  \/ \E json \in TxDocuments \cup TxDocumentsMalformed, t \in ValueTimes :
       last = Pending("Transaction.fromJSON", <<json, t>>)
  \/ \E t \in ValueTimes : \E tx \in TxInputs(t), privateKey \in PrivateKeys :
       last = Pending("sign", <<tx, privateKey>>)
  \/ \E signed \in ValueTransfers, other \in ValueTransfers :
       last = Pending("isValid", <<signed, other>>)
  \/ \E b \in ValueBlocks, c \in ValueBlocks \cup ValueBlocksStale :
       last = Pending("calculateHash", <<b, c>>)
  \/ \E data \in WalletTexts : last = Pending("Wallet.import", <<data>>)
  \/ \E json \in BlockDocuments \cup BlockDocumentsMalformed :
       last = Pending("Block.fromJSON", <<json>>)
  \/ \E json \in LedgerDocuments :
       last = Pending("Blockchain.fromJSON", <<json>>)
  \/ \E publicKey \in VerifyKeys, data \in SignedData,
        signature \in VerifySignatures :
       last = Pending("Wallet.verify", <<publicKey, data, signature>>)
  \/ \E block \in MineBlocks, d \in 0..MaxDifficulty :
       last = Pending("Miner.mine", <<block, d>>)

InitValues ==
  /\ difficulty = 0
  /\ miningReward \in Rewards
  /\ now = StartTime
  /\ pendingTransactions = <<>>
  /\ chain = <<CreateGenesisBlock(difficulty, now)>>
  /\ tampered = NotTampered
  /\ PendingCall

(* new Transaction(sender, recipient, amount) when Date.now() reads t *)
ConstructTransaction ==
  /\ IsPending("new Transaction")
  /\ LET r == TransactionConstructor(last.args[1], last.args[2], last.args[3],
                                     last.args[4])
     IN  last' = Call(last.op, last.args, r.outcome, r.value)
  /\ UNCHANGED <<chain, pendingTransactions, difficulty, miningReward, now,
                 tampered>>

(* Transaction.createMiningReward(minerAddress, reward) *)
CreateReward ==
  /\ IsPending("createMiningReward")
  /\ LET r == TransactionCreateMiningReward(last.args[1], last.args[2],
                                            last.args[3])
     IN  last' = Call(last.op, last.args, r.outcome, r.value)
  /\ UNCHANGED <<chain, pendingTransactions, difficulty, miningReward, now,
                 tampered>>

(* Transaction.fromJSON(json) when Date.now() reads t *)
FromJSONTransaction ==
  /\ IsPending("Transaction.fromJSON")
  /\ LET r == TransactionFromJSON(last.args[1], last.args[2])
     IN  last' = Call(last.op, last.args, r.outcome, r.value)
  /\ UNCHANGED <<chain, pendingTransactions, difficulty, miningReward, now,
                 tampered>>

(* tx.sign(privateKey): returned is the transaction after the call *)
Sign ==
  /\ IsPending("sign")
  /\ LET tx == last.args[1]
         privateKey == last.args[2]
     IN  last' = Call(last.op, last.args,
                      IF SignThrows(tx, privateKey) THEN "Error" ELSE "ok",
                      <<TxSign(tx, privateKey)>>)
  /\ UNCHANGED <<chain, pendingTransactions, difficulty, miningReward, now,
                 tampered>>

(* isValid() on signed and on a transaction built from the fields of other
   that carries the signature of signed *)
IsValidWithSignatureOf ==
  /\ IsPending("isValid")
  /\ LET signed == last.args[1]
         carried == [last.args[2] EXCEPT !.signature = signed.signature]
     IN  last' = Call(last.op, <<signed, carried>>, "ok",
                      <<IsValid(signed), IsValid(carried)>>)
  /\ UNCHANGED <<chain, pendingTransactions, difficulty, miningReward, now,
                 tampered>>

(* b.calculateHash() and c.calculateHash() *)
CalculateHashes ==
  /\ IsPending("calculateHash")
  /\ last' = Call(last.op, last.args, "ok",
                  <<BlockCalculateHash(last.args[1]),
                    BlockCalculateHash(last.args[2])>>)
  /\ UNCHANGED <<chain, pendingTransactions, difficulty, miningReward, now,
                 tampered>>

(* Wallet.import(data) *)
ImportWallet ==
  /\ IsPending("Wallet.import")
  /\ LET r == WalletImport(last.args[1])
     IN  last' = Call(last.op, last.args, r.outcome, r.value)
  /\ UNCHANGED <<chain, pendingTransactions, difficulty, miningReward, now,
                 tampered>>

(* Block.fromJSON(json) *)
FromJSONBlock ==
  /\ IsPending("Block.fromJSON")
  /\ LET r == BlockFromJSON(last.args[1])
     IN  last' = Call(last.op, last.args, r.outcome, r.value)
  /\ UNCHANGED <<chain, pendingTransactions, difficulty, miningReward, now,
                 tampered>>

(* Blockchain.fromJSON(json) *)
FromJSONBlockchain ==
  /\ IsPending("Blockchain.fromJSON")
  /\ LET r == BlockchainFromJSON(last.args[1])
     IN  last' = Call(last.op, last.args, r.outcome, r.value)
  /\ UNCHANGED <<chain, pendingTransactions, difficulty, miningReward, now,
                 tampered>>

(* Wallet.verify(publicKey, data, signature) *)
VerifyWallet ==
  /\ IsPending("Wallet.verify")
  /\ LET r == WalletVerify(last.args[1], last.args[2], last.args[3])
     IN  last' = Call(last.op, last.args, r.outcome, r.value)
  /\ UNCHANGED <<chain, pendingTransactions, difficulty, miningReward, now,
                 tampered>>

(* new Miner(difficulty).mine(block) *)
MineBlock ==
  /\ IsPending("Miner.mine")
  /\ last' = Call(last.op, last.args, "ok",
                  <<Mine(last.args[1], last.args[2])>>)
  /\ UNCHANGED <<chain, pendingTransactions, difficulty, miningReward, now,
                 tampered>>

NextValues ==
  \/ ConstructTransaction
  \/ CreateReward
  \/ FromJSONTransaction
  \/ Sign
  \/ IsValidWithSignatureOf
  \/ CalculateHashes
  \/ ImportWallet
  \/ FromJSONBlock
  \/ FromJSONBlockchain
  \/ VerifyWallet
  \/ MineBlock

SpecValues == InitValues /\ [][NextValues]_vars

(* ---------------------------- the mining loop ----------------------- *)

(* Miner.mine(block) one iteration of while (true) at a time; last holds the
   call, its locals (block, attempts) while it runs and the MiningResult
   when it has returned *)

(* difficulties a Miner is constructed with: the digests of the model start
   with at most three zeros *)
MineDifficulties == 0..(MaxDifficulty + 2)

Running(block, attempts) == [block |-> block, attempts |-> attempts]

IsRunning == last.op = "Miner.mine" /\ last.outcome = "running"

InitMining ==
  /\ difficulty = 0
  /\ miningReward \in Rewards
  /\ now = StartTime
  /\ pendingTransactions = <<>>
  /\ chain = <<CreateGenesisBlock(difficulty, now)>>
  /\ tampered = NotTampered
  /\ \E block \in MineBlocks, d \in MineDifficulties :
       last = Call("Miner.mine", <<block, d>>, "running",
                   <<Running(block, 0)>>)

(* an iteration whose digest starts with the target: block.hash is set and
   the result returned *)
MineReturn ==
  /\ IsRunning
  /\ LET block == last.returned[1].block
         attempts == last.returned[1].attempts + 1
         hash == BlockCalculateHash(block)
     IN  /\ StartsWith(hash, Repeat("0", last.args[2]))
         /\ last' = Call(last.op, last.args, "ok",
                         <<[block |-> [block EXCEPT !.hash = hash],
                            nonce |-> block.nonce, hash |-> hash,
                            attempts |-> attempts]>>)
  /\ UNCHANGED <<chain, pendingTransactions, difficulty, miningReward, now,
                 tampered>>

(* an iteration that tries the same nonce again *)
MineRetryKeepNonce ==
  /\ IsRunning
  /\ last.returned[1].attempts + 1 < MaxAttempts
  /\ LET block == last.returned[1].block
         attempts == last.returned[1].attempts + 1
         hash == BlockCalculateHash(block)
     IN  /\ ~StartsWith(hash, Repeat("0", last.args[2]))
         /\ last' = Call(last.op, last.args, "running",
                         <<Running(block, attempts)>>)
  /\ UNCHANGED <<chain, pendingTransactions, difficulty, miningReward, now,
                 tampered>>

(* an iteration whose digest does not start with the target: block.nonce++ *)
MineRetry ==
  /\ IsRunning
  /\ last.returned[1].attempts + 1 < MaxAttempts
  /\ LET block == last.returned[1].block
         attempts == last.returned[1].attempts + 1
         hash == BlockCalculateHash(block)
     IN  /\ ~StartsWith(hash, Repeat("0", last.args[2]))
         /\ last' = Call(last.op, last.args, "running",
                         <<Running([block EXCEPT !.nonce = block.nonce + 1],
                                   attempts)>>)
  /\ UNCHANGED <<chain, pendingTransactions, difficulty, miningReward, now,
                 tampered>>

NextMining ==
  \/ MineReturn
  \/ MineRetry

SpecMining == InitMining /\ [][NextMining]_vars

(* the loop is synchronous code on the one thread of the process: while the
   call has not returned, its next iteration is executed *)
SpecMiningFair == SpecMining /\ WF_vars(NextMining)

(* ---------------------------- tampering -------------------------------- *)

(* The fields of Block are public: a holder of the ledger object can
   overwrite any stored field of chain[k].  Tampering is applied to a ledger
   as the constructor or minePendingTransactions left it (the pool is empty;
   isChainValid does not read the pool), with at most MaxTamperSubmitted
   submitted transactions in its blocks. *)

Reverse(q) == [i \in 1..Len(q) |-> q[Len(q) + 1 - i]]

(* other values for the transaction list: emptied, reordered, one amount
   changed, or a reward transaction slipped into an empty list *)
TransactionsValues(b) ==
  {<<>>, Reverse(b.transactions)}
  \cup {[b.transactions EXCEPT ![1].amount = @ + 1] :
          x \in {y \in {1} : b.transactions # <<>>}}
  \cup {<<CreateMiningReward("B", 2, b.timestamp)>>}

(* single-field changes to the fields the digest covers *)
DataChanges(b) ==
  {<<"index", b.index + 1>>}
  \cup {<<"timestamp", b.timestamp % 10>>}
  \cup {<<"previousHash", b.previousHash \o "1">>}
  \cup {<<"nonce", b.nonce + 1>>}
  \cup {<<"transactions", v>> : v \in TransactionsValues(b)}

(* single-field changes to the stored hash: the hash of another block, or
   a made-up hash that meets the difficulty target *)
HashChanges(b) ==
  {<<"hash", v>> :
     v \in {chain[j].hash : j \in 1..Len(chain)}
           \cup {Repeat("0", difficulty) \o "f"}}

ApplyChange(b, c) == [b EXCEPT ![c[1]] = c[2]]

(* one stored field of chain[k] is overwritten; the hash is left as it is *)
TamperField(k, c) ==
  /\ tampered.kind = "none"
  /\ pendingTransactions = <<>>
  /\ last.op # "addTransaction"
  /\ Submitted <= MaxTamperSubmitted
  /\ ApplyChange(chain[k + 1], c) # chain[k + 1]
  /\ chain' = [chain EXCEPT ![k + 1] = ApplyChange(@, c)]
  /\ tampered' = [kind |-> "field", k |-> k, field |-> c[1]]
  /\ last' = Last("tamper", "ok", "", 0, "", <<>>, <<>>, <<>>)
  /\ UNCHANGED <<pendingTransactions, difficulty, miningReward, now>>

(* pairs of fields that calculateHash concatenates next to each other *)
AdjacentFields ==
  {<<"index", "previousHash">>, <<"previousHash", "timestamp">>,
   <<"timestamp", "transactions">>, <<"transactions", "nonce">>}

(* one data field of chain[k], or two neighbouring ones, are overwritten and
   the hash is recalculated: block.hash = block.calculateHash(); k is not
   the last block *)
TamperRehash(k, c1, c2) ==
  /\ tampered.kind = "none"
  /\ pendingTransactions = <<>>
  /\ last.op # "addTransaction"
  /\ Submitted <= MaxTamperSubmitted
  /\ k < Len(chain) - 1
  /\ c1 = c2 \/ <<c1[1], c2[1]>> \in AdjacentFields
  /\ LET b == chain[k + 1]
         changed == ApplyChange(ApplyChange(b, c1), c2)
     IN  /\ changed # b
         /\ chain' = [chain EXCEPT ![k + 1] =
                        [changed EXCEPT !.hash = BlockCalculateHash(changed)]]
  /\ tampered' = [kind |-> "rehash", k |-> k, field |-> "data"]
  /\ last' = Last("tamper", "ok", "", 0, "", <<>>, <<>>, <<>>)
  /\ UNCHANGED <<pendingTransactions, difficulty, miningReward, now>>

NextTamper ==
  \/ tampered.kind = "none" /\ Next
  \/ \E k \in 0..(Len(chain) - 1) :
       \E c \in DataChanges(chain[k + 1]) \cup HashChanges(chain[k + 1]) :
         TamperField(k, c)
  \/ \E k \in 0..(Len(chain) - 1) :
       \E c1 \in DataChanges(chain[k + 1]), c2 \in DataChanges(chain[k + 1]) :
         TamperRehash(k, c1, c2)

SpecTamper == Init /\ [][NextTamper]_vars

(* ---------------------------- queries ---------------------------------- *)

(* The read-only methods of Blockchain, called on a ledger that is built
   up, and possibly tampered with, between the calls.  The ledger is built
   with signed transfers of 1 from A, reward-sender transactions of 1, and
   blocks mined by A without the clock advancing. *)

Queried(op, outcome, address, returned) ==
  Last(op, outcome, address, 0, "", <<>>, <<>>, returned)

Queries ==
  {"isChainValid", "getBalanceOfAddress", "getTransactionHistory",
   "getLatestBlock", "toJSON"}

(* an isChainValid that cuts the chain back to its valid prefix when it
   finds an invalid block *)
IsChainValidQueryRepairing ==
  /\ last' = Queried("isChainValid", IF IsChainValid THEN "true" ELSE "false",
                     "", <<>>)
  /\ chain' =
       IF IsChainValid THEN chain
       ELSE SubSeq(chain, 1,
                   CHOOSE n \in 1..Len(chain) :
                     /\ ChainValid(SubSeq(chain, 1, n), difficulty)
                     /\ ~ChainValid(SubSeq(chain, 1, n + 1), difficulty))
  /\ UNCHANGED <<pendingTransactions, difficulty, miningReward, now,
                 tampered>>

(* isChainValid() *)
IsChainValidQuery ==
  /\ last' = Queried("isChainValid", IF IsChainValid THEN "true" ELSE "false",
                     "", <<>>)
  /\ UNCHANGED <<chain, pendingTransactions, difficulty, miningReward, now,
                 tampered>>

(* getBalanceOfAddress(address) *)
GetBalanceOfAddressQuery(address) ==
  /\ last' = Queried("getBalanceOfAddress", "ok", address,
                     <<GetBalanceOfAddress(chain, address)>>)
  /\ UNCHANGED <<chain, pendingTransactions, difficulty, miningReward, now,
                 tampered>>

(* getTransactionHistory(address) *)
GetTransactionHistoryQuery(address) ==
  /\ last' = Queried("getTransactionHistory", "ok", address,
                     <<GetTransactionHistory(chain, address)>>)
  /\ UNCHANGED <<chain, pendingTransactions, difficulty, miningReward, now,
                 tampered>>

(* getLatestBlock() *)
GetLatestBlockQuery ==
  /\ last' = Queried("getLatestBlock", "ok", "", <<GetLatestBlock>>)
  /\ UNCHANGED <<chain, pendingTransactions, difficulty, miningReward, now,
                 tampered>>

(* toJSON() *)
ToJSONQuery ==
  /\ last' = Queried("toJSON", "ok", "", <<BlockchainDocument(ThisLedger)>>)
  /\ UNCHANGED <<chain, pendingTransactions, difficulty, miningReward, now,
                 tampered>>

(* transactions submitted between the queries *)
QueryTxInputs ==
  {tx \in TxInputsOf(now, "A", 1) : IsValid(tx)}
  \cup TxInputsOf(now, MINING_REWARD, 1)

NextQuery ==
  \/ tampered.kind = "none"
       /\ \E transaction \in QueryTxInputs : AddTransaction(transaction)
  \/ tampered.kind = "none" /\ MinePendingTransactions("A", now)
  \/ \E k \in 0..(Len(chain) - 1) :
       \E c \in DataChanges(chain[k + 1]) \cup HashChanges(chain[k + 1]) :
         TamperField(k, c)
  \/ IsChainValidQuery
  \/ \E address \in Users : GetBalanceOfAddressQuery(address)
  \/ \E address \in Users : GetTransactionHistoryQuery(address)
  \/ GetLatestBlockQuery
  \/ ToJSONQuery

SpecQuery == Init /\ [][NextQuery]_vars

(* ---------------------------- command front end ----------------------- *)

(* CLI.start: rl.question hands one typed line to its callback, which runs
   executeCommand(input) to its end and then asks the next question.  The
   terminal goes on taking lines while a command runs; they wait in the
   input stream.  The statements of a mining command are followed one stage
   at a time.  last holds where the front end is (pc), the waiting lines,
   the block the mining command works on and what storage.save wrote. *)

Cli(pc, input, block, saved) ==
  [op |-> "CLI", pc |-> pc, input |-> input, block |-> block, saved |-> saved]

(* the private key of the wallet file of the name *)
WalletKey(name) == IF name = "A" THEN "a" ELSE "b"

(* lines a user types: send <from> <to> <amount>, mine <wallet>, exit *)
Lines ==
  {<<"send", from, to, 1>> : from \in Users, to \in Recipients}
  \cup {<<"mine", wallet>> : wallet \in Miners}
  \cup {<<"exit">>}

InitCLI ==
  /\ difficulty \in 0..MaxDifficulty
  /\ miningReward \in Rewards
  /\ now = StartTime
  /\ pendingTransactions = <<>>
  /\ chain = <<CreateGenesisBlock(difficulty, now)>>
  /\ tampered = NotTampered
  /\ last = Cli("prompt", <<>>, <<>>, <<>>)

(* the user types a line; the process is alive *)
TypeLine(line) ==
  /\ last.pc \notin {"closed", "crashed"}
  /\ Len(last.input) < MaxTypedAhead
  /\ last' = [last EXCEPT !.input = Append(@, line)]
  /\ UNCHANGED <<chain, pendingTransactions, difficulty, miningReward, now,
                 tampered>>

(* a front end that handles a send line as soon as it is typed, whatever
   command is running *)
ReadSendAnytime ==
  /\ last.pc \notin {"closed", "crashed"}
  /\ last.input # <<>>
  /\ Head(last.input)[1] = "send"
  /\ Submitted < MaxSubmitted + 1
  /\ LET line == Head(last.input)
         tx == TxSign(NewTransaction(line[2], line[3], line[4], now),
                      WalletKey(line[2]))
     IN  pendingTransactions' =
           IF AddTransactionOutcome(tx) = "true"
           THEN Append(pendingTransactions, tx)
           ELSE pendingTransactions
  /\ last' = [last EXCEPT !.input = Tail(@)]
  /\ UNCHANGED <<chain, difficulty, miningReward, now, tampered>>

(* the question callback gets a send line: CLI.send builds, signs and
   submits the transaction, reports an error it catches, and the next
   question is asked *)
ReadSend ==
  /\ last.pc = "prompt"
  /\ last.input # <<>>
  /\ Head(last.input)[1] = "send"
  /\ Submitted < MaxSubmitted
  /\ LET line == Head(last.input)
         tx == TxSign(NewTransaction(line[2], line[3], line[4], now),
                      WalletKey(line[2]))
     IN  pendingTransactions' =
           IF AddTransactionOutcome(tx) = "true"
           THEN Append(pendingTransactions, tx)
           ELSE pendingTransactions
  /\ last' = [last EXCEPT !.input = Tail(@)]
  /\ UNCHANGED <<chain, difficulty, miningReward, now, tampered>>

(* the question callback gets a mine line: CLI.mine calls
   minePendingTransactions, which creates the reward transaction (an
   InvalidAmountError is caught nowhere and ends the process), pushes it
   to the pool and constructs the block over a copy of the pool *)
ReadMine ==
  /\ last.pc = "prompt"
  /\ last.input # <<>>
  /\ Head(last.input)[1] = "mine"
  /\ Len(chain) < MaxChain
  /\ IF miningReward <= 0
     THEN /\ last' = [last EXCEPT !.pc = "crashed", !.input = Tail(@)]
          /\ UNCHANGED pendingTransactions
     ELSE LET rewardTx == CreateMiningReward(Head(last.input)[2],
                                            miningReward, now)
              pool == Append(pendingTransactions, rewardTx)
              block == NewBlock(Len(chain), now, pool, GetLatestBlock.hash, 0)
          IN  /\ pendingTransactions' = pool
              /\ last' = [last EXCEPT !.pc = "mining", !.input = Tail(@),
                                      !.block = <<block>>]
  /\ UNCHANGED <<chain, difficulty, miningReward, now, tampered>>

(* miner.mine(block) runs to its end *)
MineRun ==
  /\ last.pc = "mining"
  /\ last' = [last EXCEPT !.pc = "mined",
                          !.block = <<Mine(last.block[1], difficulty).block>>]
  /\ UNCHANGED <<chain, pendingTransactions, difficulty, miningReward, now,
                 tampered>>

(* this.chain.push(block) *)
PushBlock ==
  /\ last.pc = "mined"
  /\ chain' = Append(chain, last.block[1])
  /\ last' = [last EXCEPT !.pc = "pushed"]
  /\ UNCHANGED <<pendingTransactions, difficulty, miningReward, now,
                 tampered>>

(* this.pendingTransactions = [] and the return to CLI.mine *)
ClearPool ==
  /\ last.pc = "pushed"
  /\ pendingTransactions' = <<>>
  /\ last' = [last EXCEPT !.pc = "saving", !.block = <<>>]
  /\ UNCHANGED <<chain, difficulty, miningReward, now, tampered>>

(* this.storage.save(this.blockchain); the command has returned and the
   next question is asked *)
AutoSave ==
  /\ last.pc = "saving"
  /\ last' = [last EXCEPT !.pc = "prompt", !.saved = <<ThisLedger>>]
  /\ UNCHANGED <<chain, pendingTransactions, difficulty, miningReward, now,
                 tampered>>

(* the question callback gets exit: save, and rl.close() *)
ReadExit ==
  /\ last.pc = "prompt"
  /\ last.input # <<>>
  /\ Head(last.input)[1] = "exit"
  /\ last' = [last EXCEPT !.pc = "closed", !.input = Tail(@),
                          !.saved = <<ThisLedger>>]
  /\ UNCHANGED <<chain, pendingTransactions, difficulty, miningReward, now,
                 tampered>>

NextCLI ==
  \/ \E line \in Lines : TypeLine(line)
  \/ ReadSend
  \/ ReadMine
  \/ MineRun
  \/ PushBlock
  \/ ClearPool
  \/ AutoSave
  \/ ReadExit

SpecCLI == InitCLI /\ [][NextCLI]_vars

(* ---------------------------- properties ------------------------------- *)

(* C1: in every state reached by addTransaction and minePendingTransactions,
   every block after the first has previousHash equal to the hash of the
   block before it. *)
C1_ChainLinkage ==
  \A i \in 2..Len(chain) : chain[i].previousHash = chain[i - 1].hash

(* two blocks have been mined on top of genesis *)
C1_Witness ==
  /\ Len(chain) = 3
  /\ chain[3].previousHash = chain[2].hash
  /\ chain[2].hash # chain[1].hash

(* C2: the hash of every block of the chain, genesis included, begins with
   `difficulty` '0' characters. *)
C2_ProofOfWork ==
  \A i \in 1..Len(chain) :
    StartsWith(chain[i].hash, Repeat("0", difficulty))

(* at difficulty 2 genesis and a later block both needed a nonce search *)
C2_Witness ==
  /\ difficulty = 2
  /\ Len(chain) >= 2
  /\ chain[1].nonce > 0
  /\ chain[2].nonce > 0

(* C3: a block as constructed has nonce 0 and hash equal to its digest, and
   every block of the chain has hash equal to calculateHash(). *)
C3_HashConsistency ==
  /\ \A i \in 1..Len(last.built) :
       /\ last.built[i].nonce = 0
       /\ last.built[i].hash = BlockCalculateHash(last.built[i])
  /\ \A i \in 1..Len(chain) : chain[i].hash = BlockCalculateHash(chain[i])

(* a block was constructed and mining then changed its nonce and hash *)
C3_Witness ==
  /\ last.op = "minePendingTransactions"
  /\ last.built # <<>>
  /\ GetLatestBlock.nonce > 0
  /\ GetLatestBlock.hash # last.built[1].hash

(* chain[0] is a genesis block *)
GenesisOk ==
  /\ Len(chain) >= 1
  /\ chain[1].index = 0
  /\ chain[1].previousHash = "0"
  /\ chain[1].transactions = <<>>

(* C4: the chain is never empty, chain[0] has index 0, previousHash "0" and
   no transactions, and no operation removes or replaces chain[0]. *)
C4_Genesis == [](GenesisOk) /\ [][chain'[1] = chain[1]]_vars

(* blocks with submitted transactions were appended after genesis *)
C4_Witness ==
  /\ Len(chain) = 3
  /\ Len(chain[2].transactions) >= 2
  /\ chain[1].transactions = <<>>

(* C5: isChainValid() is true in every state reached by addTransaction and
   minePendingTransactions. *)
C5_UntamperedValid == IsChainValid

(* a chain with two mined blocks at difficulty 2 and a non-empty pool *)
C5_Witness ==
  /\ Len(chain) = 3
  /\ difficulty = 2
  /\ pendingTransactions # <<>>

(* C6: after one stored field of a block chain[k], k >= 1, was changed
   without recomputing its hash, isChainValid() is false. *)
C6_TamperDetected ==
  (tampered.kind = "field" /\ tampered.k >= 1) => ~IsChainValid

(* the transactions of the middle block of a three-block chain changed *)
C6_Witness ==
  /\ tampered.kind = "field"
  /\ tampered.k = 1
  /\ tampered.field = "transactions"
  /\ Len(chain) = 3

(* C7: after one stored field of the genesis block of a ledger with at
   least two blocks was changed, isChainValid() is false. *)
C7_GenesisTamperDetected ==
  (tampered.kind = "field" /\ tampered.k = 0 /\ Len(chain) >= 2)
    => ~IsChainValid

(* C8: after the data of a block that is not the last one was changed and
   its hash recalculated, isChainValid() is false. *)
C8_RehashDetected ==
  (tampered.kind = "rehash" /\ tampered.k < Len(chain) - 1) => ~IsChainValid

(* the transactions the last call of addTransaction may have been given *)
LastInputs == TxInputsOf(now, last'.sender, last'.amount)

(* C9: addTransaction of a non-reward transaction whose isValid() is false
   returns false and leaves chain and pendingTransactions unchanged,
   whatever the balance of the sender. *)
C9_InvalidRejected ==
  [][last'.op = "addTransaction" =>
       \A tx \in LastInputs :
         (tx.sender # MINING_REWARD /\ ~IsValid(tx) /\ AddTransaction(tx))
           => /\ last'.outcome = "false"
              /\ chain' = chain
              /\ pendingTransactions' = pendingTransactions]_vars

(* a wallet with no confirmed funds had a transaction refused for its
   signature *)
C9_Witness ==
  /\ last.op = "addTransaction"
  /\ last.outcome = "false"
  /\ last.sender \in Users
  /\ GetBalanceOfAddress(chain, last.sender) < last.amount

(* C10: addTransaction of a validly signed non-reward transaction fails with
   InsufficientBalance and changes neither chain nor pool when the amount
   exceeds the confirmed balance of the sender, and accepts the transaction
   when the amount equals that balance. *)
C10_InsufficientBalance ==
  [][last'.op = "addTransaction" =>
     \A tx \in LastInputs :
       (tx.sender # MINING_REWARD /\ IsValid(tx) /\ AddTransaction(tx))
         => LET balance == GetBalanceOfAddress(chain, tx.sender)
            IN  /\ tx.amount > balance
                     => /\ last'.outcome = "InsufficientBalanceError"
                        /\ chain' = chain
                        /\ pendingTransactions' = pendingTransactions
                /\ tx.amount = balance
                     => /\ last'.outcome = "true"
                        /\ pendingTransactions'
                             = Append(pendingTransactions, tx)]_vars

(* a wallet was refused for an amount above its confirmed balance while the
   pool holds a transaction whose amount equals its sender's balance *)
C10_Witness ==
  /\ last.op = "addTransaction"
  /\ last.outcome = "InsufficientBalanceError"
  /\ last.sender \in Users
  /\ \E i \in 1..Len(pendingTransactions) :
       /\ pendingTransactions[i].sender \in Users
       /\ pendingTransactions[i].amount
            = GetBalanceOfAddress(chain, pendingTransactions[i].sender)

(* C11: a call of addTransaction that returns true appends the transaction
   as the last element of pendingTransactions and leaves the earlier pool
   entries, the chain, difficulty, miningReward and the balance and history
   of every address unchanged. *)
C11_AddAppends ==
  [][(last'.op = "addTransaction" /\ last'.outcome = "true") =>
       /\ \A tx \in LastInputs :
            AddTransaction(tx)
              => pendingTransactions' = Append(pendingTransactions, tx)
       /\ chain' = chain
       /\ difficulty' = difficulty
       /\ miningReward' = miningReward
       /\ \A a \in Senders :
            /\ GetBalanceOfAddress(chain', a) = GetBalanceOfAddress(chain, a)
            /\ GetTransactionHistory(chain', a)
                 = GetTransactionHistory(chain, a)]_vars

(* a second, different transaction was accepted behind the first one, on a
   ledger with confirmed transactions *)
C11_Witness ==
  /\ last.op = "addTransaction"
  /\ last.outcome = "true"
  /\ Len(pendingTransactions) = 2
  /\ pendingTransactions[1] # pendingTransactions[2]
  /\ pendingTransactions[2].sender = last.sender
  /\ Len(chain) >= 2

(* C12: when minePendingTransactions(addr) returns, pendingTransactions is
   empty and the transactions of the returned block are the pool as it was
   before the call, in the same order, followed by one reward transaction
   from the reward sentinel to addr for miningReward. *)
C12_MinedBlockContents ==
  [][(last'.op = "minePendingTransactions" /\ last'.outcome = "ok") =>
       /\ pendingTransactions' = <<>>
       /\ Len(last'.returned) = 1
       /\ LET txs == last'.returned[1].transactions
              n == Len(pendingTransactions)
          IN  /\ Len(txs) = n + 1
              /\ SubSeq(txs, 1, n) = pendingTransactions
              /\ txs[n + 1].sender = MINING_REWARD
              /\ txs[n + 1].recipient = last'.miner
              /\ txs[n + 1].amount = miningReward]_vars

(* a block was mined from a pool of two different transactions *)
C12_Witness ==
  /\ last.op = "minePendingTransactions"
  /\ last.outcome = "ok"
  /\ pendingTransactions = <<>>
  /\ Len(last.returned[1].transactions) = 3
  /\ last.returned[1].transactions[1] # last.returned[1].transactions[2]

(* the index of every block is its position in the chain *)
IndexIsPosition == \A i \in 1..Len(chain) : chain[i].index = i - 1

(* C13: minePendingTransactions lengthens the chain by exactly one block
   whose index is the previous length, the returned block is the new last
   block, the blocks chained before, difficulty and miningReward are
   unchanged, and chain[i].index = i throughout. *)
C13_AppendOnly ==
  /\ [](IndexIsPosition)
  /\ [][(last'.op = "minePendingTransactions" /\ last'.outcome = "ok") =>
         /\ Len(chain') = Len(chain) + 1
         /\ chain'[Len(chain')].index = Len(chain)
         /\ last'.returned = <<chain'[Len(chain')]>>
         /\ SubSeq(chain', 1, Len(chain)) = chain
         /\ difficulty' = difficulty
         /\ miningReward' = miningReward]_vars

(* a third block was appended to a chain of two *)
C13_Witness ==
  /\ last.op = "minePendingTransactions"
  /\ last.outcome = "ok"
  /\ Len(chain) = 3
  /\ GetLatestBlock.index = 2
  /\ last.returned = <<GetLatestBlock>>

RECURSIVE Confirmed(_)
(* the transactions of the blocks, in block order and then in the order
   they have within the block *)
Confirmed(blocks) ==
  IF blocks = <<>> THEN <<>>
  ELSE Head(blocks).transactions \o Confirmed(Tail(blocks))

RECURSIVE SumWhere(_, _, _)
(* the sum of the amounts of the transactions whose field is the address *)
SumWhere(txs, field, address) ==
  IF txs = <<>> THEN 0
  ELSE (IF Head(txs)[field] = address THEN Head(txs).amount ELSE 0)
       + SumWhere(Tail(txs), field, address)

(* C14: in every state, getBalanceOfAddress(a) is the sum of the amounts of
   the confirmed transactions received by a minus the sum of those sent by
   a; the pool does not count, and a confirmed self-transfer nets to
   zero. *)
C14_BalanceLaw ==
  \A a \in Senders :
    GetBalanceOfAddress(chain, a)
      = SumWhere(Confirmed(chain), "recipient", a)
          - SumWhere(Confirmed(chain), "sender", a)

(* a wallet holding funds confirmed a transfer to itself *)
C14_Witness ==
  /\ Len(chain) = 3
  /\ \E i \in 1..Len(chain[3].transactions) :
       /\ chain[3].transactions[i].sender = "B"
       /\ chain[3].transactions[i].recipient = "B"
  /\ GetBalanceOfAddress(chain, "B") > 0

(* C15: in every state, getTransactionHistory(a) is the list of the
   confirmed transactions sent or received by a, in chain order, each one
   once; the pool does not count. *)
C15_HistoryComplete ==
  \A a \in Senders :
    GetTransactionHistory(chain, a)
      = SelectSeq(Confirmed(chain),
                  LAMBDA tx : tx.sender = a \/ tx.recipient = a)

(* the history of a wallet holds a credit and then a transfer to itself,
   and leaves out the rewards of the miner *)
C15_Witness ==
  /\ Len(chain) = 3
  /\ Len(GetTransactionHistory(chain, "B")) = 2
  /\ GetTransactionHistory(chain, "B")[1].sender = MINING_REWARD
  /\ GetTransactionHistory(chain, "B")[2].sender = "B"
  /\ GetTransactionHistory(chain, "B")[2].recipient = "B"
  /\ Len(Confirmed(chain)) = 4

(* the ledger after one minePendingTransactions on the fresh ledger with an
   empty pool; A is the only miner *)
AfterFirstMine ==
  /\ Len(chain) = 2
  /\ Len(chain[2].transactions) = 1

(* C16: on a fresh ledger with difficulty 2 and reward 100, the transfer
   A->B of 10 signed by A fails with InsufficientBalance; after one
   minePendingTransactions(A) it is accepted into the pool; after a second
   minePendingTransactions(A) the pool is empty, the chain has 3 blocks, the
   balance of B is 10 and the balance of A is 190. *)
C16_Scenario ==
  [][LET tx == Transfer("A", "B", 10, now)
     IN  /\ (Len(chain) = 1 /\ AddTransaction(tx))
               => /\ GetBalanceOfAddress(chain, "A") = 0
                  /\ last'.outcome = "InsufficientBalanceError"
                  /\ pendingTransactions' = pendingTransactions
         /\ (AfterFirstMine /\ pendingTransactions = <<>>
                /\ AddTransaction(tx))
               => /\ last'.outcome = "true"
                  /\ pendingTransactions' = <<tx>>
         /\ \A t \in Times :
              (/\ AfterFirstMine
               /\ pendingTransactions = <<Transfer("A", "B", 10, chain[2].timestamp)>>
               /\ MinePendingTransactions("A", t))
                => /\ pendingTransactions' = <<>>
                   /\ Len(chain') = 3
                   /\ GetBalanceOfAddress(chain', "B") = 10
                   /\ GetBalanceOfAddress(chain', "A") = 190]_vars

(* the second block confirmed the transfer of 10 from A to B *)
C16_Witness ==
  /\ difficulty = 2
  /\ miningReward = 100
  /\ Len(chain) = 3
  /\ pendingTransactions = <<>>
  /\ Len(chain[2].transactions) = 1
  /\ Len(chain[3].transactions) = 2
  /\ chain[3].transactions[1] = Transfer("A", "B", 10, chain[2].timestamp)
  /\ GetBalanceOfAddress(chain, "B") = 10
  /\ GetBalanceOfAddress(chain, "A") = 190

(* C17: when Miner(N).mine(block) returns, the returned hash begins with N
   '0' characters and isValidHash accepts it, block.hash is the returned
   hash and is block.calculateHash(), and the returned nonce is
   block.nonce. *)
C17_MiningValidity ==
  \A i \in 1..Len(last.mined) :
    LET result == last.mined[i]
        block == last.returned[i]
    IN  /\ Len(result.hash) >= difficulty
        /\ \A j \in 1..difficulty : SubSeq(result.hash, j, j) = "0"
        /\ IsValidHash(result.hash, difficulty)
        /\ block.hash = result.hash
        /\ block.hash = BlockCalculateHash(block)
        /\ result.nonce = block.nonce

(* a block with a submitted transaction was mined at difficulty 2 after
   more than one attempt *)
C17_Witness ==
  /\ last.op = "minePendingTransactions"
  /\ last.outcome = "ok"
  /\ difficulty = 2
  /\ last.mined[1].attempts > 1
  /\ last.mined[1].nonce = last.mined[1].attempts - 1
  /\ Len(last.returned[1].transactions) >= 2

(* C18: Miner.mine leaves index, timestamp, previousHash and the transaction
   list of the block as they were when the block was constructed. *)
C18_MiningFrame ==
  \A i \in 1..Len(last.built) :
    LET before == last.built[i]
        after == last.returned[i]
    IN  /\ after.index = before.index
        /\ after.timestamp = before.timestamp
        /\ after.previousHash = before.previousHash
        /\ after.transactions = before.transactions

(* mining changed the nonce and the hash of a block that holds two
   submitted transactions and the reward *)
C18_Witness ==
  /\ last.op = "minePendingTransactions"
  /\ last.outcome = "ok"
  /\ Len(last.built[1].transactions) = 3
  /\ last.built[1].nonce = 0
  /\ last.returned[1].nonce > 0
  /\ last.returned[1].hash # last.built[1].hash

(* C19: addTransaction accepts a validly signed transaction of a wallet
   whenever its amount is at most the confirmed balance of the sender,
   whatever the pool already holds, and the next minePendingTransactions
   confirms every transaction of the pool. *)
C19_NoReservation ==
  /\ [][(last'.op = "addTransaction" /\ last'.sender \in Users) =>
         \A tx \in LastInputs :
           (/\ tx.sender \in Users
            /\ IsValid(tx)
            /\ tx.amount <= GetBalanceOfAddress(chain, tx.sender)
            /\ AddTransaction(tx))
             => /\ last'.outcome = "true"
                /\ pendingTransactions' = Append(pendingTransactions, tx)]_vars
  /\ [][(last'.op = "minePendingTransactions" /\ last'.outcome = "ok") =>
         \A i \in 1..Len(pendingTransactions) :
           chain'[Len(chain')].transactions[i] = pendingTransactions[i]]_vars

(* the last block confirmed two transactions of A, each within the balance
   A had confirmed before and together above it *)
C19_Witness ==
  /\ Len(chain) = 3
  /\ Len(chain[3].transactions) = 3
  /\ chain[3].transactions[1].sender = "A"
  /\ chain[3].transactions[2].sender = "A"
  /\ LET b == GetBalanceOfAddress(SubSeq(chain, 1, 2), "A")
     IN  /\ chain[3].transactions[1].amount <= b
         /\ chain[3].transactions[2].amount <= b
         /\ chain[3].transactions[1].amount
              + chain[3].transactions[2].amount > b

(* isValid() as the claim states it *)
IsValidClaimed(tx) ==
  IF tx.sender = MINING_REWARD THEN TRUE
  ELSE IF tx.signature = NoSignature THEN FALSE
  ELSE EcVerify(tx.sender, TxCalculateHash(tx), tx.signature)

(* C20: isValid() is true whenever the sender is the reward sentinel; for
   every other sender it is false when there is no signature and is
   otherwise the result of verifying the signature over calculateHash()
   under the sender, false when that verification raises. *)
C20_IsValid ==
  \A tx \in TxInputs(now) : IsValid(tx) = IsValidClaimed(tx)

(* C21: tx.sign(privateKey) throws and leaves the signature as it was when
   the public key of privateKey is not the sender; otherwise it stores a
   signature over calculateHash() and isValid() is true afterwards. *)
C21_SignChecksKey ==
  last.op = "sign" /\ last.outcome # "pending" =>
    LET tx == last.args[1]
        privateKey == last.args[2]
        after == last.returned[1]
    IN  IF PublicOf(privateKey) # tx.sender
        THEN /\ last.outcome = "Error"
             /\ after = tx
        ELSE /\ last.outcome = "ok"
             /\ EcVerify(tx.sender, TxCalculateHash(after), after.signature)
             /\ IsValid(after)
             /\ [after EXCEPT !.signature = tx.signature] = tx

(* a transaction that carried a signature was signed with the key of
   another wallet *)
C21_Witness ==
  /\ last.op = "sign"
  /\ last.outcome = "Error"
  /\ last.args[1].sender \in Users
  /\ last.args[1].signature # NoSignature
  /\ last.returned[1].signature = last.args[1].signature

(* the fields calculateHash of a transaction is meant to cover *)
SignedFields(tx) == <<tx.sender, tx.recipient, tx.amount, tx.timestamp>>

(* C22: the signed payload is canonical over (sender, recipient, amount,
   timestamp): two transactions that differ in one of the four have
   different payloads, and a signature that makes isValid() true for one
   does not make it true for the other. *)
C22_PayloadCanonical ==
  last.op = "isValid" /\ last.outcome # "pending" =>
    LET signed == last.args[1]
        carried == last.args[2]
    IN  SignedFields(signed) # SignedFields(carried) =>
          /\ TxCalculateHash(signed) # TxCalculateHash(carried)
          /\ last.returned[1] => ~last.returned[2]

(* the fields calculateHash of a block is meant to cover *)
HashedFields(b) ==
  <<b.index, b.previousHash, b.timestamp, b.transactions, b.nonce>>

(* C23: calculateHash() of a block is a function of (index, previousHash,
   timestamp, transactions, nonce) alone, whatever the stored hash, and
   different field tuples give different digests. *)
C23_HashOfFields ==
  last.op = "calculateHash" /\ last.outcome # "pending" =>
    LET b == last.args[1]
        c == last.args[2]
    IN  /\ HashedFields(b) = HashedFields(c)
             => last.returned[1] = last.returned[2]
        /\ HashedFields(b) # HashedFields(c)
             => last.returned[1] # last.returned[2]

(* the calls that construct a Transaction from well-shaped arguments *)
Constructs ==
  /\ last.outcome # "pending"
  /\ \/ last.op \in {"new Transaction", "createMiningReward"}
     \/ last.op = "Transaction.fromJSON" /\ last.args[1] \in TxDocuments

(* sender, recipient and amount handed to the constructing call *)
GivenFields ==
  CASE last.op = "new Transaction" ->
         <<last.args[1], last.args[2], last.args[3]>>
    [] last.op = "createMiningReward" ->
         <<MINING_REWARD, last.args[1], last.args[2]>>
    [] last.op = "Transaction.fromJSON" ->
         <<Get(last.args[1], "sender").value,
           Get(last.args[1], "recipient").value,
           Get(last.args[1], "amount").value>>

(* the call threw InvalidAmountError exactly when the amount is not positive
   and then made no object; otherwise the object carries the given fields *)
ConstructsGivenFields ==
  /\ last.outcome = "InvalidAmountError" <=> GivenFields[3] <= 0
  /\ last.outcome # "ok" => last.returned = <<>>
  /\ last.outcome # "InvalidAmountError" =>
       /\ last.outcome = "ok"
       /\ <<last.returned[1].sender, last.returned[1].recipient,
            last.returned[1].amount>> = GivenFields

(* C29 as stated: constructing a Transaction (directly, via
   createMiningReward or via Transaction.fromJSON) fails with
   InvalidAmountError iff amount <= 0 and makes no object; otherwise it
   yields an unsigned transaction with the given sender, recipient and
   amount. *)
C29_ConstructionUnsigned ==
  Constructs =>
    /\ ConstructsGivenFields
    /\ last.outcome = "ok" => last.returned[1].signature = NoSignature

(* C29: construction fails with InvalidAmountError iff amount <= 0 and makes
   no object; otherwise the transaction carries the given sender, recipient
   and amount.  It is unsigned and stamped with the clock when made by the
   constructor or createMiningReward; made by Transaction.fromJSON it carries
   the timestamp of the text and the signature of the text when that is a
   string. *)
C29_Construction ==
  Constructs =>
    /\ ConstructsGivenFields
    /\ last.outcome = "ok" =>
         IF last.op = "Transaction.fromJSON"
         THEN /\ JNumber(last.returned[1].timestamp)
                   = Get(last.args[1], "timestamp")
              /\ IF TypeOf(Get(last.args[1], "signature")) = "string"
                 THEN JString(last.returned[1].signature)
                        = Get(last.args[1], "signature")
                 ELSE last.returned[1].signature = NoSignature
         ELSE /\ last.returned[1].signature = NoSignature
              /\ last.returned[1].timestamp = last.args[Len(last.args)]

(* a text with a positive amount and a signature was made a transaction
   that carries the signature *)
C29_Witness ==
  /\ last.op = "Transaction.fromJSON"
  /\ last.args[1] \in TxDocuments
  /\ last.outcome = "ok"
  /\ last.returned[1].amount > 0
  /\ last.returned[1].signature = StoredSignature

(* data parses to an object with string publicKey and privateKey, the
   private key is one of the curve and its public key is the supplied one *)
Importable(data) ==
  /\ JsonParse(data).outcome = "ok"
  /\ LET json == JsonParse(data).value[1]
     IN  /\ json.type = "object"
         /\ Get(json, "publicKey").type = "string"
         /\ Get(json, "privateKey").type = "string"
         /\ Get(json, "privateKey").value \in PrivateKeys
         /\ PublicOf(Get(json, "privateKey").value)
               = Get(json, "publicKey").value

(* C30: Wallet.import(data) succeeds iff data parses to an object with
   string publicKey and privateKey, a valid private key and the public key
   that belongs to it; it then returns the wallet of those two keys, so
   import(export(w)) is w; in every other case it throws WalletImportError
   and nothing else, and returns no wallet. *)
C30_Import ==
  last.op = "Wallet.import" /\ last.outcome # "pending" =>
    LET data == last.args[1]
    IN  /\ last.outcome = "ok" <=> Importable(data)
        /\ last.outcome = "ok" =>
             LET json == JsonParse(data).value[1]
             IN  last.returned =
                   <<NewWallet(Get(json, "publicKey").value,
                               Get(json, "privateKey").value)>>
        /\ last.outcome # "ok" =>
             last.outcome = "WalletImportError" /\ last.returned = <<>>
        /\ \A w \in WalletGenerate :
             data = WalletExport(w) => last.returned = <<w>>

(* a text whose private key is no key of the curve was refused with
   WalletImportError *)
C30_Witness ==
  /\ last.op = "Wallet.import"
  /\ last.outcome = "WalletImportError"
  /\ JsonParse(last.args[1]).outcome = "ok"
  /\ Get(JsonParse(last.args[1]).value[1], "privateKey") = JString("z")
  /\ Get(JsonParse(last.args[1]).value[1], "publicKey").type = "string"

(* j is an object with numeric index, timestamp and nonce, string
   previousHash and hash and an array transactions *)
BlockShaped(j) ==
  /\ j.type = "object"
  /\ Get(j, "index").type = "number"
  /\ Get(j, "timestamp").type = "number"
  /\ Get(j, "nonce").type = "number"
  /\ Get(j, "previousHash").type = "string"
  /\ Get(j, "hash").type = "string"
  /\ Get(j, "transactions").type = "array"

(* the digest of the fields of j other than hash *)
DigestOfDocument(j) ==
  SHA256(NumToString(Get(j, "index").value) \o Get(j, "previousHash").value
         \o NumToString(Get(j, "timestamp").value)
         \o JsonStringify(Get(j, "transactions"))
         \o NumToString(Get(j, "nonce").value))

(* C24: Block.fromJSON(j) succeeds iff j is an object with numeric index,
   timestamp and nonce, string previousHash and hash, an array transactions
   and a stored hash equal to the digest of the other fields; the block is
   then field for field j, so fromJSON(toJSON(b)) is b; otherwise it throws
   InvalidBlockError and returns no block. *)
C24_BlockFromJSON ==
  last.op = "Block.fromJSON" /\ last.outcome # "pending" =>
    LET j == last.args[1]
    IN  /\ last.outcome = "ok" <=>
             BlockShaped(j) /\ Get(j, "hash").value = DigestOfDocument(j)
        /\ last.outcome = "ok" =>
             /\ \A k \in {"index", "timestamp", "nonce"} :
                  JNumber(last.returned[1][k]) = Get(j, k)
             /\ \A k \in {"previousHash", "hash"} :
                  JString(last.returned[1][k]) = Get(j, k)
             /\ JArray(last.returned[1].transactions) = Get(j, "transactions")
        /\ last.outcome # "ok" =>
             last.outcome = "InvalidBlockError" /\ last.returned = <<>>
        /\ \A b \in ValueBlocks :
             j = BlockDocument(b) => last.returned = <<PlainBlock(b)>>

(* the text of a block with a transaction, written by toJSON, was made a
   block again *)
C24_Witness ==
  /\ last.op = "Block.fromJSON"
  /\ last.outcome = "ok"
  /\ \E b \in ValueBlocks :
       /\ b.transactions # <<>>
       /\ last.args[1] = BlockDocument(b)
       /\ last.returned[1].hash = b.hash

(* C25: for every ledger reached by addTransaction and
   minePendingTransactions, Blockchain.fromJSON of its toJSON returns a
   ledger with the same chain, pool, difficulty and miningReward, field for
   field, and with the same isChainValid, balances and histories. *)
C25_LedgerRoundTrip ==
  Loaded =>
    /\ last.outcome = "ok"
    /\ last.returned = <<PlainLedger(ThisLedger)>>
    /\ LET loaded == last.returned[1]
       IN  /\ ChainValidPlain(loaded.chain, loaded.difficulty) = IsChainValid
           /\ \A address \in Senders :
                /\ GetBalanceOfAddress(ReadPlain(loaded.chain), address)
                     = GetBalanceOfAddress(chain, address)
                /\ GetTransactionHistory(ReadPlain(loaded.chain), address)
                     = GetTransactionHistory(chain, address)

(* a ledger with a signed transfer in a block and a transaction in the pool
   was written and read back *)
C25_Witness ==
  /\ Loaded
  /\ last.outcome = "ok"
  /\ pendingTransactions # <<>>
  /\ \E i \in 1..Len(chain) : \E j \in 1..Len(chain[i].transactions) :
       chain[i].transactions[j].signature # NoSignature
  /\ Len(last.returned[1].chain) = Len(chain)

(* v is an object with string sender and recipient, numeric amount and
   timestamp and, if any, a string signature *)
TransactionShaped(v) ==
  /\ v.type = "object"
  /\ Get(v, "sender").type = "string"
  /\ Get(v, "recipient").type = "string"
  /\ Get(v, "amount").type = "number"
  /\ Get(v, "timestamp").type = "number"
  /\ Get(v, "signature").type \in {"string", "undefined"}

(* every field of the text is there and of the right shape: the four at the
   top, those of every block, those of every transaction in a block and in
   the pool *)
LedgerShaped(j) ==
  /\ j.type = "object"
  /\ Get(j, "chain").type = "array"
  /\ Get(j, "pendingTransactions").type = "array"
  /\ Get(j, "difficulty").type = "number"
  /\ Get(j, "miningReward").type = "number"
  /\ \A i \in 1..Len(Get(j, "chain").value) :
       LET block == Get(j, "chain").value[i]
       IN  /\ BlockShaped(block)
           /\ \A k \in 1..Len(Get(block, "transactions").value) :
                TransactionShaped(Get(block, "transactions").value[k])
  /\ \A k \in 1..Len(Get(j, "pendingTransactions").value) :
       TransactionShaped(Get(j, "pendingTransactions").value[k])

(* the stored hash of every block of the text is the digest of its other
   fields *)
HashesAgree(j) ==
  \A i \in 1..Len(Get(j, "chain").value) :
    LET block == Get(j, "chain").value[i]
    IN  Get(block, "hash").value = DigestOfDocument(block)

(* C26: Blockchain.fromJSON returns no ledger whenever a field of the text
   is missing or of the wrong shape (at the top, in a block, in a transaction
   of a block or of the pool) and whenever the stored hash of a block
   differs from its recomputed digest. *)
C26_AllOrNothing ==
  last.op = "Blockchain.fromJSON" /\ last.outcome # "pending" =>
    LET j == last.args[1]
    IN  /\ ~(LedgerShaped(j) /\ HashesAgree(j)) => last.outcome # "ok"
        /\ last.outcome # "ok" => last.returned = <<>>

(* the invariant of a ledger: a chain that starts with a genesis block and
   is linked and mined *)
LedgerInvariant(ledger) ==
  /\ ledger.chain # <<>>
  /\ ledger.chain[1].previousHash = "0"
  /\ ledger.chain[1].transactions = <<>>
  /\ \A i \in 2..Len(ledger.chain) :
       ledger.chain[i].previousHash = ledger.chain[i - 1].hash
  /\ \A i \in 1..Len(ledger.chain) :
       IsValidHash(ledger.chain[i].hash, ledger.difficulty)

(* C27: every ledger Blockchain.fromJSON returns has a non-empty chain whose
   first block has previousHash "0" and no transactions, whose later blocks
   each carry the hash of their predecessor, and whose block hashes all meet
   the difficulty; a text made by hand that breaks this is not loaded. *)
C27_RevalidatedOnLoad ==
  last.op = "Blockchain.fromJSON" /\ last.outcome = "ok" =>
    LedgerInvariant(last.returned[1])

(* the ledger with, for every transaction, the values of its fields, in
   whatever order the object lists them *)
FieldsOf(ledger) ==
  [ledger EXCEPT
     !.chain = ReadPlain(ledger.chain),
     !.pendingTransactions =
        [j \in 1..Len(ledger.pendingTransactions) |->
           TransactionOfPlain(ledger.pendingTransactions[j])]]

(* C28: a text of the ledger whose block or transaction objects list their
   members in another order loads to the ledger the text as written loads
   to. *)
C28_OrderInsignificant ==
  Loaded =>
    /\ last.outcome = "ok"
    /\ FieldsOf(last.returned[1]) = ThisLedger

(* C31: Wallet.verify(publicKey, data, signature) always returns a boolean:
   true iff the signature was made over data by the private key that belongs
   to publicKey, false for the key of another wallet and false, not an
   error, for a malformed key or signature. *)
C31_VerifyTotal ==
  last.op = "Wallet.verify" /\ last.outcome # "pending" =>
    /\ last.outcome = "ok"
    /\ last.returned \in {<<TRUE>>, <<FALSE>>}
    /\ last.returned[1] <=>
         \E w \in WalletGenerate :
           /\ w.publicKey = last.args[1]
           /\ last.args[3] = WalletSign(w, last.args[2])

(* a signature of one wallet was verified under a string that is no key *)
C31_Witness ==
  /\ last.op = "Wallet.verify"
  /\ last.args[1] \notin Users
  /\ \E w \in WalletGenerate : last.args[3] = WalletSign(w, last.args[2])
  /\ last.returned = <<FALSE>>

RECURSIVE AdmittedIn(_)
(* the transactions the blocks confirmed, without the transaction that
   closes each block *)
AdmittedIn(blocks) ==
  IF blocks = <<>> THEN <<>>
  ELSE LET txs == Head(blocks).transactions
       IN  SubSeq(txs, 1, Len(txs) - 1) \o AdmittedIn(Tail(blocks))

(* the accepted transactions in the order of their admission: those the
   blocks after genesis confirmed, then the pool *)
Admitted(blocks, pool) == AdmittedIn(Tail(blocks)) \o pool

(* C32: every transaction addTransaction accepted is confirmed exactly once:
   the next block mined holds the pool in admission order followed by the
   reward transaction and leaves the pool empty, and no operation drops an
   accepted transaction, moves it or confirms it again. *)
C32_ConfirmedOnce ==
  [][LET before == Admitted(chain, pendingTransactions)
         after == Admitted(chain', pendingTransactions')
     IN  /\ IF last'.op = "addTransaction" /\ last'.outcome = "true"
            THEN /\ Len(after) = Len(before) + 1
                 /\ SubSeq(after, 1, Len(before)) = before
                 /\ after[Len(after)].sender = last'.sender
                 /\ after[Len(after)].amount = last'.amount
                 /\ chain' = chain
            ELSE after = before
         /\ (last'.op = "minePendingTransactions" /\ last'.outcome = "ok") =>
              /\ pendingTransactions' = <<>>
              /\ Len(chain') = Len(chain) + 1
              /\ LET txs == chain'[Len(chain')].transactions
                 IN  /\ SubSeq(txs, 1, Len(txs) - 1) = pendingTransactions
                     /\ txs[Len(txs)].sender = MINING_REWARD]_vars

(* two blocks were mined, each from a pool with an accepted transaction,
   and the two accepted transactions are one in each block *)
C32_Witness ==
  /\ last.op = "minePendingTransactions"
  /\ last.outcome = "ok"
  /\ Len(chain) = 3
  /\ Len(chain[2].transactions) = 2
  /\ Len(chain[3].transactions) = 2
  /\ pendingTransactions = <<>>

(* the transaction carries a signature that verifies under its sender *)
Signed(tx) ==
  /\ tx.signature # NoSignature
  /\ EcVerify(tx.sender, TxCalculateHash(tx), tx.signature)

(* C33: in every state reached by addTransaction and
   minePendingTransactions, every transaction in the pool or in a block
   whose sender is not the reward sentinel carries a signature that verifies
   under its sender for its sender, recipient, amount and timestamp. *)
C33_SignedHistory ==
  /\ \A i \in 1..Len(pendingTransactions) :
       pendingTransactions[i].sender # MINING_REWARD
         => Signed(pendingTransactions[i])
  /\ \A i \in 1..Len(chain) : \A j \in 1..Len(chain[i].transactions) :
       chain[i].transactions[j].sender # MINING_REWARD
         => Signed(chain[i].transactions[j])

FromSentinel(tx) == tx.sender = MINING_REWARD

NotFromSentinel(tx) == tx.sender # MINING_REWARD

(* C34: addTransaction of a transaction whose sender is the reward sentinel
   returns true and appends it, unsigned and whatever the balances; the
   block that confirms it credits its recipient with its amount, on top of
   the transfers of the block and of the block's own reward to the miner. *)
C34_SentinelAccepted ==
  [][/\ (last'.op = "addTransaction" /\ last'.sender = MINING_REWARD) =>
          /\ last'.outcome = "true"
          /\ Len(pendingTransactions') = Len(pendingTransactions) + 1
          /\ SubSeq(pendingTransactions', 1, Len(pendingTransactions))
               = pendingTransactions
          /\ LET tx == pendingTransactions'[Len(pendingTransactions')]
             IN  /\ tx.sender = MINING_REWARD
                 /\ tx.amount = last'.amount
                 /\ tx.signature = NoSignature
     /\ (last'.op = "minePendingTransactions" /\ last'.outcome = "ok") =>
          \A a \in Users :
            GetBalanceOfAddress(chain', a) - GetBalanceOfAddress(chain, a)
              = SumWhere(SelectSeq(pendingTransactions, FromSentinel),
                         "recipient", a)
                + SumWhere(SelectSeq(pendingTransactions, NotFromSentinel),
                           "recipient", a)
                - SumWhere(pendingTransactions, "sender", a)
                + (IF a = last'.miner THEN miningReward ELSE 0)]_vars

(* a block confirmed a submitted reward-sender transaction to B while no
   address held any coins, and B holds its amount *)
C34_Witness ==
  /\ last.op = "minePendingTransactions"
  /\ last.outcome = "ok"
  /\ Len(chain) = 2
  /\ Len(chain[2].transactions) = 2
  /\ chain[2].transactions[1].sender = MINING_REWARD
  /\ chain[2].transactions[1].recipient = "B"
  /\ chain[2].transactions[1].signature = NoSignature
  /\ GetBalanceOfAddress(chain, "B") = chain[2].transactions[1].amount

Range(f) == {f[i] : i \in 1..Len(f)}

(* how many times the transaction occurs in the sequence *)
Copies(tx, txs) == Cardinality({i \in 1..Len(txs) : txs[i] = tx})

(* what one copy of the transaction adds to the balance of the address *)
NetOf(tx, a) ==
  (IF tx.recipient = a THEN tx.amount ELSE 0)
  - (IF tx.sender = a THEN tx.amount ELSE 0)

RECURSIVE NetOfCopies(_, _, _)
(* the sum, over the distinct transactions of the set, of the number of
   their copies in the sequence times what one copy adds *)
NetOfCopies(set, txs, a) ==
  IF set = {} THEN 0
  ELSE LET tx == CHOOSE x \in set : TRUE
       IN  Copies(tx, txs) * NetOf(tx, a)
             + NetOfCopies(set \ {tx}, txs, a)

(* C35: a validly signed transaction that the pool or a block already
   holds is accepted again by addTransaction whenever the confirmed balance
   of its sender is at least its amount; the block that confirms the pool
   holds every copy and moves each copy's amount separately. *)
C35_ReplayAccepted ==
  [][/\ last'.op = "addTransaction" =>
          \A tx \in LastInputs :
            (/\ tx \in Range(pendingTransactions) \cup Range(Confirmed(chain))
             /\ tx.sender # MINING_REWARD
             /\ IsValid(tx)
             /\ GetBalanceOfAddress(chain, tx.sender) >= tx.amount
             /\ AddTransaction(tx))
              => /\ last'.outcome = "true"
                 /\ pendingTransactions' = Append(pendingTransactions, tx)
                 /\ Copies(tx, pendingTransactions')
                      = Copies(tx, pendingTransactions) + 1
     /\ (last'.op = "minePendingTransactions" /\ last'.outcome = "ok") =>
          /\ \A tx \in Range(pendingTransactions) :
               Copies(tx, Confirmed(chain'))
                 = Copies(tx, Confirmed(chain)) + Copies(tx, pendingTransactions)
          /\ \A a \in Users :
               GetBalanceOfAddress(chain', a) - GetBalanceOfAddress(chain, a)
                 = NetOfCopies(Range(pendingTransactions),
                               pendingTransactions, a)
                   + (IF a = last'.miner THEN miningReward ELSE 0)]_vars

(* a block confirmed two copies of one signed transfer from A to B, and B
   holds twice its amount *)
C35_Witness ==
  /\ last.op = "minePendingTransactions"
  /\ last.outcome = "ok"
  /\ Len(chain) = 3
  /\ Len(chain[3].transactions) = 3
  /\ chain[3].transactions[1] = chain[3].transactions[2]
  /\ chain[3].transactions[1].sender = "A"
  /\ chain[3].transactions[1].signature # NoSignature
  /\ GetBalanceOfAddress(chain, "B") = 2 * chain[3].transactions[1].amount

(* a transfer a block already confirmed was submitted again and accepted *)
C35_ReplayOfConfirmed ==
  /\ last.op = "addTransaction"
  /\ last.outcome = "true"
  /\ last.sender = "A"
  /\ Len(pendingTransactions) = 1
  /\ pendingTransactions[1] \in Range(Confirmed(chain))

(* the digest of the block with the nonce n *)
DigestAt(block, n) == BlockCalculateHash([block EXCEPT !.nonce = n])

(* C36: mine(block) returns the smallest nonce, from the nonce the block
   holds when the call is made, whose digest starts with `difficulty`
   zeros; attempts is that nonce minus the starting nonce plus 1; when the
   digest of the starting nonce qualifies the nonce is unchanged and
   attempts is 1. *)
C36_LinearSearch ==
  last.op = "Miner.mine" /\ last.outcome # "pending" =>
    LET block == last.args[1]
        d == last.args[2]
        r == last.returned[1]
    IN  /\ r.nonce >= block.nonce
        /\ r.block.nonce = r.nonce
        /\ r.hash = DigestAt(block, r.nonce)
        /\ IsValidHash(r.hash, d)
        /\ \A n \in block.nonce..(r.nonce - 1) :
             ~IsValidHash(DigestAt(block, n), d)
        /\ r.attempts = r.nonce - block.nonce + 1
        /\ IsValidHash(DigestAt(block, block.nonce), d) =>
             r.nonce = block.nonce /\ r.attempts = 1

(* a search that started above a nonce that qualifies and went on for
   several attempts *)
C36_Witness ==
  /\ last.op = "Miner.mine"
  /\ last.outcome = "ok"
  /\ last.args[1].nonce > 0
  /\ last.returned[1].attempts > 2
  /\ \E n \in 0..(last.args[1].nonce - 1) :
       IsValidHash(DigestAt(last.args[1], n), last.args[2])

(* one of the digests the run is followed for starts with the target *)
Qualifies ==
  \E n \in last.args[1].nonce..(last.args[1].nonce + MaxAttempts - 1) :
    IsValidHash(DigestAt(last.args[1], n), last.args[2])

(* C37: a call of mine whose block has, at or above its starting nonce, a
   nonce whose digest starts with `difficulty` zeros eventually returns; a
   call is either running or has returned a result whose digest meets the
   target, the one mine(block) computes: there is no other way out of the
   loop. *)
C37_RunsToCompletion ==
  /\ [](last.op = "Miner.mine"
          => /\ last.outcome \in {"running", "ok"}
             /\ last.outcome = "ok"
                  => /\ IsValidHash(last.returned[1].hash, last.args[2])
                     /\ last.returned[1] = Mine(last.args[1], last.args[2]))
  /\ (IsRunning /\ Qualifies) ~> (last.outcome = "ok")

(* a call at the highest difficulty the digests meet returned after several
   iterations *)
C37_Witness ==
  /\ last.op = "Miner.mine"
  /\ last.outcome = "ok"
  /\ last.args[2] = 3
  /\ last.returned[1].attempts > 3

(* C38: a ledger constructed with miningReward <= 0 exists, and every
   minePendingTransactions on it ends with InvalidAmountError and leaves
   chain and pendingTransactions as they were: its chain stays the genesis
   block alone, so nothing that waits in its pool is ever confirmed. *)
C38_NoRewardNoBlock ==
  /\ [][(miningReward <= 0 /\ last'.op = "minePendingTransactions"
           /\ last' # last)
          => /\ last'.outcome = "InvalidAmountError"
             /\ chain' = chain
             /\ pendingTransactions' = pendingTransactions]_vars
  /\ [](miningReward <= 0
          => /\ Len(chain) = 1
             /\ last.op = "minePendingTransactions"
                  => last.outcome = "InvalidAmountError")

(* on a ledger without reward a mining call failed while two transactions
   waited in the pool, and they still wait *)
C38_Witness ==
  /\ miningReward <= 0
  /\ last.op = "minePendingTransactions"
  /\ last.outcome = "InvalidAmountError"
  /\ Len(pendingTransactions) = 2
  /\ Len(chain) = 1

(* C39: a call of isChainValid, getBalanceOfAddress, getTransactionHistory,
   getLatestBlock or toJSON leaves chain, pendingTransactions, difficulty
   and miningReward as they were and returns what the ledger holds; a
   chain that isChainValid reports invalid is as invalid after the call. *)
C39_QueriesReadOnly ==
  [][(last'.op \in Queries /\ last' # last) =>
       /\ chain' = chain
       /\ pendingTransactions' = pendingTransactions
       /\ difficulty' = difficulty
       /\ miningReward' = miningReward
       /\ last'.op = "isChainValid" =>
            /\ last'.outcome = (IF IsChainValid THEN "true" ELSE "false")
            /\ last'.outcome = "false" => ~ChainValid(chain', difficulty')
       /\ last'.op = "getBalanceOfAddress" =>
            last'.returned = <<GetBalanceOfAddress(chain', last'.sender)>>
       /\ last'.op = "getLatestBlock" =>
            last'.returned = <<chain'[Len(chain')]>>]_vars

(* isChainValid returned false on a tampered chain of three blocks, and the
   chain still has its three blocks *)
C39_Witness ==
  /\ last.op = "isChainValid"
  /\ last.outcome = "false"
  /\ tampered.kind = "field"
  /\ Len(chain) = 3
  /\ ~IsChainValid

(* a mining command is between its snapshot of the pool and the clearing of
   the pool *)
MiningInFlight == last.pc \in {"mining", "mined", "pushed"}

(* C40: the front end runs one command at a time: while a mining command
   is between its snapshot of the pool and the clearing of the pool, the
   pool is the snapshot (no transaction is admitted in between, whatever is
   typed meanwhile), only the stages of that command change the ledger, and
   the next question is asked only after the block is in the chain, the
   pool is empty and the ledger is saved. *)
C40_Serialized ==
  /\ [](MiningInFlight
          => pendingTransactions = last.block[1].transactions)
  /\ [][last.pc # "prompt" =>
          /\ pendingTransactions' # pendingTransactions
               => (last.pc = "pushed" /\ pendingTransactions' = <<>>)
          /\ chain' # chain
               => (/\ last.pc = "mined"
                   /\ chain' = Append(chain, last.block[1])
                   /\ chain'[Len(chain')].transactions = pendingTransactions)
          /\ last'.pc = "prompt"
               => (/\ last.pc = "saving"
                   /\ pendingTransactions' = <<>>
                   /\ last'.saved = <<Ledger(chain', pendingTransactions',
                                             difficulty', miningReward')>>)]_vars

(* a send line was typed while a block holding a submitted transfer was
   being mined; it waits *)
C40_Witness ==
  /\ last.pc = "mined"
  /\ Len(last.block[1].transactions) = 2
  /\ last.input # <<>>
  /\ Head(last.input)[1] = "send"
  /\ GetBalanceOfAddress(chain, Head(last.input)[2]) >= Head(last.input)[4]

====
